---- MODULE Spec2Model ----
(***************************************************************************)
(* Round lifecycle of casino-backend.                                      *)
(*                                                                         *)
(* The repository holds three variants of the lifecycle that do not share  *)
(* a schema, so each is modelled over its own tables:                      *)
(*   - app.py: one table; auto_dealer_loop, place_bet, the users ledger    *)
(*     (variables a_..., dl, rq, balance, rowLock): SpecApp               *)
(*   - baccarat/service.py + baccarat/sql.py: one loop per room, rounds    *)
(*     keyed by (day_key, room, round_no) (variables s_...): SpecSvc      *)
(*   - baccarat/api.py: place_bet gated by rounds.close_at                 *)
(*     (variables p_..., rq, balance): SpecApi                            *)
(* Pure functions (payout arithmetic) are checked under SpecPay.           *)
(*                                                                         *)
(* Time is the integer variable clock, in seconds.  Python floats that     *)
(* carry odds (0.95, 1.95, 8.0) are modelled in hundredths; int(x) of a    *)
(* non-negative product is the integer quotient.                           *)
(***************************************************************************)
EXTENDS Integers, Sequences, FiniteSets, TLC

NULL == "NULL"
(* SQL NULL in a timestamp or date column (both are integers here) *)
NO_TIME == 0 - 1
(* no row of the bets table *)
NoBet == [user_id |-> NULL, day_key |-> NO_TIME, room |-> NULL, round_no |-> 0,
          side |-> NULL, amount |-> 0, bet_type |-> NULL]

(***************************************************************************)
(* Bounds of the model.                                                    *)
(***************************************************************************)
MaxClock == 6
MaxRounds == 2
MaxApiClock == 31
MaxApiRounds == 3
MaxDay == 1
MaxRoundNo == 2
MaxAmount == 40
MaxLimit == 2
MaxSvcClock == 3
MaxBets == 3

Users == {"u1", "u2"}
Dealers == {"d1", "d2"}
Reqs == {"q1", "q2"}
(* the users a request may come from (u1, u2 are interchangeable) *)
ReqUsers == [q \in Reqs |-> IF q = "q1" THEN {"u1"} ELSE Users]
Amounts == {0, 50}
InitBalance == [u \in Users |-> 90]

Outcomes == {"player", "banker", "tie"}
(* the sides of a main bet *)
MainSides == {"player", "banker", "tie"}
ALLOWED_SIDES == MainSides \cup {"player_pair", "banker_pair", "any_pair",
                                 "perfect_pair"}
(* the sides requests are made with: the main sides and one no endpoint    *)
(* accepts; no request is a pair side bet                                  *)
SidesIn == MainSides \cup {"dragon"}
(* q1 is any request; q2, the request that runs beside it, is a valid     *)
(* banker bet of any user                                                  *)
ReqSides == [q \in Reqs |-> IF q = "q1" THEN SidesIn ELSE {"banker"}]
ReqAmounts == [q \in Reqs |-> IF q = "q1" THEN Amounts ELSE Amounts \ {0}]

(* AUTO_BET_SEC is read from the environment; the dealer uses              *)
(* max(5, AUTO_BET_SEC).                                                   *)
AUTO_BET_SEC == 3

(* the loops that run: (process, room) *)
SvcLoops == {<<"p1", "room1">>, <<"p2", "room1">>}
(* str hashes are salted per process, so hash(room) % 10000 is any value   *)
(* for each (process, room); two values stand for equal or different keys  *)
LockKeys == {"k1", "k2"}

(* no credit computed yet *)
NotPaid == 0 - 1
(* no bet at settlement *)
PyIdle == [side |-> NULL, outcome |-> NULL, amount |-> 0, app |-> NotPaid,
           svc |-> NotPaid]

(* no hand being dealt *)
HdIdle == [impl |-> NULL, pc |-> "idle", p |-> <<>>, b |-> <<>>, pt |-> 0,
           bt |-> 0, p3 |-> FALSE, b3 |-> FALSE, outcome |-> NULL, r |-> 0]

(* a single_room_loop at the top of its while loop *)
RoomLoops == {<<"p1", "room1">>, <<"p1", "room2">>}
OneLoop == {<<"p1", "room1">>}
SlTop == [pc |-> "top", rn |-> 0, outcome |-> NULL, err |-> NULL,
          conflict |-> FALSE, deadline |-> NO_TIME]

VARIABLES
  clock,       \* wall clock, seconds
  balance,     \* users.balance
  rowLock,     \* users row lock (SELECT ... FOR UPDATE): holder or NULL
  a_rounds,    \* app.py rounds, indexed by round_no
  a_bets,      \* app.py bets: the row each request inserted, or NoBet
  a_credited,  \* history: how many times each bet row was paid out
  a_lock,      \* pg advisory lock LOCK_KEY: holding dealer or NULL
  dl,          \* auto_dealer_loop instances
  rq,          \* bet requests (app.py place_bet or baccarat/api.py place_bet)
  p_rounds,    \* baccarat/api.py rounds (room, round_no, close_at), by id
  p_bets,      \* baccarat/api.py bets: the row each request inserted, or NoBet
  s_day,       \* today_key(): the calendar day in Asia/Taipei
  s_rounds,    \* baccarat/sql.py rounds, unique on (day_key, room, round_no)
  s_adv,       \* advisory lock keys held, each with the loop holding it
  s_key,       \* lock_key of each loop: 0xBACC00 + hash(room) % 10000
  sl,          \* single_room_loop instances
  py,          \* one bet at settlement: side, outcome, amount and the credits
  hd           \* one hand being dealt by deal_round or compute_baccarat_result

appVars == <<a_rounds, a_bets, a_credited, a_lock, dl>>
apiVars == <<p_rounds, p_bets>>
svcVars == <<s_day, s_rounds, s_adv, s_key, sl>>
notApp == <<apiVars, svcVars, py, hd>>
notApi == <<appVars, rowLock, svcVars, py, hd>>
notSvcPay == <<clock, rowLock, appVars, rq, apiVars, py, hd>>
notSvc == <<balance, notSvcPay>>
notPay == <<clock, balance, rowLock, appVars, rq, apiVars, svcVars, hd>>
notHand == <<clock, balance, rowLock, appVars, rq, apiVars, svcVars, py>>
vars == <<clock, balance, rowLock, appVars, rq, apiVars, svcVars, py, hd>>

Max(a, b) == IF a >= b THEN a ELSE b
Min(a, b) == IF a <= b THEN a ELSE b

(***************************************************************************)
(* app.py: payout arithmetic                                               *)
(***************************************************************************)
MAIN_ODDS == [player |-> 100, banker |-> 95, tie |-> 800]

(* mult of the payout loop, in hundredths *)
mult(side, outcome) ==
  IF outcome = "tie"
    THEN (IF side = "tie" THEN 100 + MAIN_ODDS["tie"] ELSE 100)
    ELSE (IF side = outcome THEN 100 + MAIN_ODDS[outcome] ELSE 0)

(* credit(uid, amount * mult): int(amount * mult) when mult > 0 *)
credit(side, outcome, amount) ==
  IF mult(side, outcome) > 0 THEN (amount * mult(side, outcome)) \div 100 ELSE 0

(***************************************************************************)
(* app.py: round helpers                                                   *)
(***************************************************************************)
OpenRows == {i \in 1..Len(a_rounds) :
               a_rounds[i].status = "open" /\ a_rounds[i].outcome = NULL}

(* get_open_round: latest round_no with status='open' and no outcome *)
get_open_round ==
  IF OpenRows = {} THEN 0 ELSE CHOOSE i \in OpenRows : \A j \in OpenRows : j <= i

next_round_no == Len(a_rounds) + 1

NoOutcomeRows == {i \in 1..Len(a_rounds) : a_rounds[i].outcome = NULL}

(* the first SELECT of auto_dealer_loop: latest round without outcome *)
latest_unsettled ==
  IF NoOutcomeRows = {} THEN 0
  ELSE CHOOSE i \in NoOutcomeRows : \A j \in NoOutcomeRows : j <= i

(***************************************************************************)
(* app.py: place_bet                                                       *)
(***************************************************************************)
RqNew == [pc |-> "new", user |-> NULL, room |-> NULL, side |-> NULL,
          amount |-> 0, now |-> NO_TIME, round_no |-> 0, bal |-> 0,
          res |-> NULL]

(* a request that returned: its locals are gone, its answer stays *)
RqDone(reason) == [RqNew EXCEPT !.pc = "done", !.res = reason]

(* a gate that lets the deadline instant itself through *)
DeadlinePassed_late(now, ddl) == ddl # NO_TIME /\ now > ddl

(* the deadline comparison of place_bet *)
DeadlinePassed(now, ddl) == ddl # NO_TIME /\ now >= ddl

(* lines 334-341 of place_bet: the validation of the body, then            *)
(* now = datetime.now(timezone.utc), taken before the connection is made   *)
place_bet_begin(q) ==
  /\ rq[q].pc = "new"
  /\ \E u \in ReqUsers[q], side \in ReqSides[q], amount \in ReqAmounts[q] :
       IF side \notin ALLOWED_SIDES THEN rq' = [rq EXCEPT ![q] = RqDone("bad side")]
       ELSE IF amount <= 0 THEN rq' = [rq EXCEPT ![q] = RqDone("bad amount")]
       ELSE rq' = [rq EXCEPT ![q] = [RqNew EXCEPT !.pc = "read", !.user = u,
                      !.side = side, !.amount = amount, !.now = clock]]
  /\ UNCHANGED <<clock, balance, rowLock, appVars>>
  /\ UNCHANGED notApp

(* lines 344-351 of place_bet: the answer of get_open_round and of the     *)
(* status and deadline gates, for a request made at time now               *)
place_bet_gate(now) ==
  LET r == get_open_round IN
  IF r = 0 THEN "no open round"
  ELSE IF a_rounds[r].status # "open" THEN "closed"
  ELSE IF DeadlinePassed(now, a_rounds[r].betting_deadline) THEN "time over"
  ELSE "pass"

place_bet_check(q) ==
  /\ rq[q].pc = "read"
  /\ LET g == place_bet_gate(rq[q].now) IN
       IF g = "pass"
         THEN rq' = [rq EXCEPT ![q].pc = "debit", ![q].round_no = get_open_round]
         ELSE rq' = [rq EXCEPT ![q] = RqDone(g)]
  /\ UNCHANGED <<clock, balance, rowLock, appVars>>
  /\ UNCHANGED notApp

(* lines 359-361: what a request refused for its funds leaves of the       *)
(* balance it read: the raise of line 360 comes before the UPDATE of 361   *)
refused_balance_debited(bal, amount) == bal - amount

refused_balance(bal, amount) == bal

(* lines 354-360: SELECT balance FOR UPDATE and the funds check; a failed  *)
(* check raises, the transaction rolls back and the row lock is released   *)
place_bet_lock(q) ==
  /\ rq[q].pc = "debit"
  /\ rowLock[rq[q].user] = NULL
  /\ LET u == rq[q].user IN
       IF balance[u] < rq[q].amount
         THEN /\ rq' = [rq EXCEPT ![q] = RqDone("insufficient")]
              /\ balance' = [balance EXCEPT
                               ![u] = refused_balance(balance[u], rq[q].amount)]
              /\ UNCHANGED rowLock
         ELSE /\ rq' = [rq EXCEPT ![q].pc = "insert", ![q].bal = balance[u]]
              /\ rowLock' = [rowLock EXCEPT ![u] = q]
              /\ UNCHANGED balance
  /\ UNCHANGED <<clock, appVars>>
  /\ UNCHANGED notApp

(* lines 361-369: UPDATE users, INSERT bets, commit (one transaction) *)
place_bet_commit(q) ==
  /\ rq[q].pc = "insert"
  /\ LET u == rq[q].user IN
       /\ balance' = [balance EXCEPT ![u] = rq[q].bal - rq[q].amount]
       /\ a_bets' = [a_bets EXCEPT ![q] =
                        [NoBet EXCEPT !.user_id = u, !.round_no = rq[q].round_no,
                           !.side = rq[q].side, !.amount = rq[q].amount,
                           !.bet_type = IF rq[q].side \in MainSides
                                          THEN "main" ELSE rq[q].side]]
       /\ rowLock' = [rowLock EXCEPT ![u] = NULL]
       /\ rq' = [rq EXCEPT ![q] = RqDone("ok")]
  /\ UNCHANGED <<clock, a_rounds, a_credited, a_lock, dl>>
  /\ UNCHANGED notApp

(* an exception or a lost connection before commit: rollback *)
place_bet_abort(q) ==
  /\ rq[q].pc = "insert"
  /\ rowLock' = [rowLock EXCEPT ![rq[q].user] = NULL]
  /\ rq' = [rq EXCEPT ![q] = RqDone("error")]
  /\ UNCHANGED <<clock, balance, appVars>>
  /\ UNCHANGED notApp

(***************************************************************************)
(* app.py: auto_dealer_loop                                                *)
(***************************************************************************)
DlTop == [pc |-> "top", blk |-> 1, rid |-> 0, outcome |-> NULL, rows |-> {},
          pay |-> [u \in {} |-> 0]]

(* try_take_lock: pg_try_advisory_lock succeeds iff nobody holds the key *)
try_take_lock == a_lock = NULL

(* lines 526-540: take the lock, read the latest round without outcome;    *)
(* an open round past its deadline is closed and settled here              *)
dealer_lock(d) ==
  /\ dl[d].pc = "top"
  /\ try_take_lock
  /\ a_lock' = d
  /\ LET row == latest_unsettled IN
       IF /\ row # 0
          /\ a_rounds[row].status = "open"
          /\ a_rounds[row].betting_deadline # NO_TIME
          /\ clock >= a_rounds[row].betting_deadline
         THEN dl' = [dl EXCEPT ![d] = [DlTop EXCEPT !.pc = "close", !.blk = 1,
                                                     !.rid = row]]
         ELSE dl' = [dl EXCEPT ![d] = [DlTop EXCEPT !.pc = "open"]]
  /\ UNCHANGED <<clock, balance, rowLock, a_rounds, a_bets, a_credited, rq>>
  /\ UNCHANGED notApp

(* lines 580-589: open a round when none is open, release the lock *)
dealer_open(d) ==
  /\ dl[d].pc = "open"
  /\ IF OpenRows = {}
       THEN /\ Len(a_rounds) < MaxRounds
            /\ a_rounds' = Append(a_rounds,
                 [status |-> "open",
                  betting_deadline |-> clock + Max(5, AUTO_BET_SEC),
                  outcome |-> NULL])
       ELSE UNCHANGED a_rounds
  /\ a_lock' = NULL
  /\ dl' = [dl EXCEPT ![d] = [DlTop EXCEPT !.pc = "select", !.blk = 2]]
  /\ UNCHANGED <<clock, balance, rowLock, a_bets, a_credited, rq>>
  /\ UNCHANGED notApp

(* lines 594-600: the open round this pass will run; none: sleep(1), loop *)
dealer_select(d) ==
  /\ dl[d].pc = "select"
  /\ LET row == get_open_round IN
       IF row # 0
         THEN dl' = [dl EXCEPT ![d].pc = "close", ![d].rid = row]
         ELSE dl' = [dl EXCEPT ![d] = DlTop]
  /\ UNCHANGED <<clock, balance, rowLock, a_rounds, a_bets, a_credited, a_lock, rq>>
  /\ UNCHANGED notApp

(* lines 602-606 (and 542): after the sleep to the deadline, status='closed' *)
(* (sleep_sec is the remaining time cut to whole seconds, the unit of the  *)
(* clock here)                                                             *)
dealer_close(d) ==
  /\ dl[d].pc = "close"
  /\ clock >= a_rounds[dl[d].rid].betting_deadline
  /\ a_rounds' = [a_rounds EXCEPT ![dl[d].rid].status = "closed"]
  /\ dl' = [dl EXCEPT ![d].pc = "deal"]
  /\ UNCHANGED <<clock, balance, rowLock, a_bets, a_credited, a_lock, rq>>
  /\ UNCHANGED notApp

(* lines 609-617 (and 543-551): random_outcome, UPDATE rounds SET outcome *)
dealer_deal(d) ==
  /\ dl[d].pc = "deal"
  /\ \E o \in Outcomes :
       /\ a_rounds' = [a_rounds EXCEPT ![dl[d].rid].outcome = o]
       /\ dl' = [dl EXCEPT ![d].pc = "bets", ![d].outcome = o]
  /\ UNCHANGED <<clock, balance, rowLock, a_bets, a_credited, a_lock, rq>>
  /\ UNCHANGED notApp

(* the payout loop: pay_map over the fetched rows *)
BetIds == {i \in Reqs : a_bets[i] # NoBet}

WinRows(rid, o) ==
  {i \in BetIds :
     a_bets[i].round_no = rid /\ mult(a_bets[i].side, o) > 0}

RECURSIVE SumCredit(_, _)
SumCredit(S, o) ==
  IF S = {} THEN 0
  ELSE LET i == CHOOSE x \in S : TRUE
       IN credit(a_bets[i].side, o, a_bets[i].amount) + SumCredit(S \ {i}, o)

pay_map(rid, o) ==
  LET W == WinRows(rid, o)
      U == {a_bets[i].user_id : i \in W}
  IN [u \in U |-> SumCredit({i \in W : a_bets[i].user_id = u}, o)]

(* where the loop goes once every user of pay_map is paid *)
AfterPay(d) ==
  IF dl[d].blk = 1 THEN [DlTop EXCEPT !.pc = "open"] ELSE DlTop

(* lines 620-642 (and 553-575): SELECT bets of the round, build pay_map *)
dealer_bets(d) ==
  /\ dl[d].pc = "bets"
  /\ LET pm == pay_map(dl[d].rid, dl[d].outcome) IN
       IF DOMAIN pm = {}
         THEN dl' = [dl EXCEPT ![d] = AfterPay(d)]
         ELSE dl' = [dl EXCEPT ![d].pc = "pay", ![d].pay = pm,
                               ![d].rows = WinRows(dl[d].rid, dl[d].outcome)]
  /\ UNCHANGED <<clock, balance, rowLock, a_rounds, a_bets, a_credited, a_lock, rq>>
  /\ UNCHANGED notApp

(* lines 643-644 (and 576-577): one UPDATE users per entry of pay_map *)
dealer_pay(d) ==
  /\ dl[d].pc = "pay"
  /\ \E u \in DOMAIN dl[d].pay :
       /\ rowLock[u] = NULL
       /\ balance' = [balance EXCEPT ![u] = @ + dl[d].pay[u]]
       /\ a_credited' = [i \in Reqs |->
                           IF i \in dl[d].rows /\ a_bets[i].user_id = u
                             THEN a_credited[i] + 1 ELSE a_credited[i]]
       /\ LET rest == [v \in DOMAIN dl[d].pay \ {u} |-> dl[d].pay[v]] IN
            IF DOMAIN rest = {}
              THEN dl' = [dl EXCEPT ![d] = AfterPay(d)]
              ELSE dl' = [dl EXCEPT ![d].pay = rest]
  /\ UNCHANGED <<clock, rowLock, a_rounds, a_bets, a_lock, rq>>
  /\ UNCHANGED notApp

(* lines 651-653, or a process restart: the pass is abandoned, the         *)
(* connection closes (releasing the advisory lock) and the loop restarts   *)
dealer_fail(d) ==
  /\ dl[d].pc # "top"
  /\ dl' = [dl EXCEPT ![d] = DlTop]
  /\ a_lock' = IF a_lock = d THEN NULL ELSE a_lock
  /\ UNCHANGED <<clock, balance, rowLock, a_rounds, a_bets, a_credited, rq>>
  /\ UNCHANGED notApp

(* The clock moves to the next instant at which a comparison of the code   *)
(* can change its answer: the deadline of an open round that is still      *)
(* ahead, else the next second.  Before the first round exists no code     *)
(* compares the clock with anything, so time starts with the first round.  *)
NextInstants ==
  LET ahead == {t \in {a_rounds[i].betting_deadline : i \in OpenRows} : t > clock}
  IN IF ahead = {} THEN {clock + 1} ELSE ahead

Tick ==
  /\ Len(a_rounds) > 0
  /\ \E t \in NextInstants : t <= MaxClock /\ clock' = t
  /\ UNCHANGED <<balance, rowLock, appVars, rq>>
  /\ UNCHANGED notApp

InitApp ==
  /\ clock = 0
  /\ balance = InitBalance
  /\ rowLock = [u \in Users |-> NULL]
  /\ a_rounds = <<>>
  /\ a_bets = [q \in Reqs |-> NoBet]
  /\ a_credited = [q \in Reqs |-> 0]
  /\ a_lock = NULL
  /\ dl = [d \in Dealers |-> DlTop]
  /\ rq = [q \in Reqs |-> RqNew]
  /\ p_rounds = <<>>
  /\ p_bets = [q \in Reqs |-> NoBet]
  /\ s_day = 0
  /\ s_rounds = {}
  /\ s_adv = [k \in {} |-> NULL]
  /\ s_key = [l \in SvcLoops |-> "k1"]
  /\ sl = [l \in SvcLoops |-> SlTop]
  /\ py = PyIdle
  /\ hd = HdIdle

NextApp ==
  \/ Tick
  \/ \E q \in Reqs : place_bet_begin(q)
  \/ \E q \in Reqs : place_bet_check(q)
  \/ \E q \in Reqs : place_bet_lock(q)
  \/ \E q \in Reqs : place_bet_commit(q)
  \/ \E q \in Reqs : place_bet_abort(q)
  \/ \E d \in Dealers : dealer_lock(d)
  \/ \E d \in Dealers : dealer_open(d)
  \/ \E d \in Dealers : dealer_select(d)
  \/ \E d \in Dealers : dealer_close(d)
  \/ \E d \in Dealers : dealer_deal(d)
  \/ \E d \in Dealers : dealer_bets(d)
  \/ \E d \in Dealers : dealer_pay(d)
  \/ \E d \in Dealers : dealer_fail(d)

SpecApp == InitApp /\ [][NextApp]_vars

(***************************************************************************)
(* baccarat/api.py: place_bet over rounds(room, round_no, close_at).       *)
(* No file of src/ writes close_at; the step that opens a round with its   *)
(* deadline is modelled from the specification (open_round_spec).          *)
(***************************************************************************)
ROOMS == {"room1", "room2"}
RoomsIn == ROOMS \cup {"lobby"}
ReqRooms == [q \in Reqs |-> IF q = "q1" THEN RoomsIn ELSE ROOMS]
BETTING_SECONDS == [room1 |-> 30, room2 |-> 60]
ApiInitBalance == [u \in Users |-> IF u = "u1" THEN 90 ELSE 0]

RoomRows(room) == {i \in 1..Len(p_rounds) : p_rounds[i].room = room}

(* SELECT ... WHERE room = %s ORDER BY id DESC LIMIT 1 *)
latest_round(room) ==
  IF RoomRows(room) = {} THEN 0
  ELSE CHOOSE i \in RoomRows(room) : \A j \in RoomRows(room) : j <= i

(* Open round: insert the row with deadline = now + the room's window,     *)
(* once the room's previous round is past its deadline                     *)
open_round_spec(room) ==
  /\ Len(p_rounds) < MaxApiRounds
  /\ LET last == latest_round(room) IN
       /\ last # 0 => clock >= p_rounds[last].close_at
       /\ p_rounds' = Append(p_rounds,
            [room |-> room,
             round_no |-> IF last = 0 THEN 1 ELSE p_rounds[last].round_no + 1,
             close_at |-> clock + BETTING_SECONDS[room]])
  /\ UNCHANGED <<clock, balance, rq, p_bets>>
  /\ UNCHANGED notApi

(* lines 171-186 of place_bet: BetBody validation (422), the room check    *)
(* and now = now_utc(), taken before the connection is made                *)
api_place_bet_body(q, u, room, side, amount) ==
  /\ rq[q].pc = "new"
  /\ IF side \notin {"player", "banker", "tie"} \/ amount < 1
       THEN rq' = [rq EXCEPT ![q] = RqDone("unprocessable")]
     ELSE IF room \notin ROOMS
       THEN rq' = [rq EXCEPT ![q] = RqDone("invalid room")]
     ELSE rq' = [rq EXCEPT ![q] = [RqNew EXCEPT !.pc = "read", !.user = u,
                    !.room = room, !.side = side, !.amount = amount,
                    !.now = clock]]
  /\ UNCHANGED <<clock, balance, apiVars>>
  /\ UNCHANGED notApi

api_place_bet_begin(q) ==
  /\ rq[q].pc = "new"
  /\ \E u \in ReqUsers[q], room \in ReqRooms[q], side \in ReqSides[q],
        amount \in ReqAmounts[q] :
       api_place_bet_body(q, u, room, side, amount)

(* lines 187-204 of place_bet: the latest round of the room and the        *)
(* close_at gate, for a request made at time now                           *)
api_place_bet_gate(room, now) ==
  LET r == latest_round(room) IN
  IF r = 0 THEN "round not ready"
  ELSE IF p_rounds[r].close_at = NO_TIME \/ now >= p_rounds[r].close_at
    THEN "betting closed"
  ELSE "pass"

api_place_bet_check(q) ==
  /\ rq[q].pc = "read"
  /\ LET g == api_place_bet_gate(rq[q].room, rq[q].now) IN
       IF g = "pass"
         THEN rq' = [rq EXCEPT ![q].pc = "insert",
                        ![q].round_no = p_rounds[latest_round(rq[q].room)].round_no]
         ELSE rq' = [rq EXCEPT ![q] = RqDone(g)]
  /\ UNCHANGED <<clock, balance, apiVars>>
  /\ UNCHANGED notApi

(* lines 206-214: INSERT INTO bets; the users table is not touched *)
api_place_bet_insert(q) ==
  /\ rq[q].pc = "insert"
  /\ p_bets' = [p_bets EXCEPT ![q] =
                  [NoBet EXCEPT !.user_id = rq[q].user, !.room = rq[q].room,
                     !.round_no = rq[q].round_no, !.side = rq[q].side,
                     !.amount = rq[q].amount]]
  /\ rq' = [rq EXCEPT ![q] = RqDone("ok")]
  /\ UNCHANGED <<clock, balance, p_rounds>>
  /\ UNCHANGED notApi

(* the positions of single_room_loop inside its open block (service.py    *)
(* lines 88-114, one connection); its statements run within one second    *)
OpenBlockPcs == {"info", "next", "insert", "reinfo"}

ApiNextInstants ==
  LET ahead == {t \in {p_rounds[i].close_at : i \in 1..Len(p_rounds)} : t > clock}
  IN IF ahead = {} THEN {clock + 1} ELSE ahead

ApiTick ==
  /\ Len(p_rounds) > 0
  /\ \A l \in DOMAIN sl : sl[l].pc \notin OpenBlockPcs
  /\ \E t \in ApiNextInstants : t <= MaxApiClock /\ clock' = t
  /\ UNCHANGED <<balance, rq, apiVars>>
  /\ UNCHANGED notApi

InitApi ==
  /\ clock = 0
  /\ balance = ApiInitBalance
  /\ rowLock = [u \in Users |-> NULL]
  /\ a_rounds = <<>>
  /\ a_bets = [q \in Reqs |-> NoBet]
  /\ a_credited = [q \in Reqs |-> 0]
  /\ a_lock = NULL
  /\ dl = [d \in Dealers |-> DlTop]
  /\ rq = [q \in Reqs |-> RqNew]
  /\ p_rounds = <<>>
  /\ p_bets = [q \in Reqs |-> NoBet]
  /\ s_day = 0
  /\ s_rounds = {}
  /\ s_adv = [k \in {} |-> NULL]
  /\ s_key = [l \in SvcLoops |-> "k1"]
  /\ sl = [l \in SvcLoops |-> SlTop]
  /\ py = PyIdle
  /\ hd = HdIdle

NextApi ==
  \/ ApiTick
  \/ \E room \in ROOMS : open_round_spec(room)
  \/ \E q \in Reqs : api_place_bet_begin(q)
  \/ \E q \in Reqs : api_place_bet_check(q)
  \/ \E q \in Reqs : api_place_bet_insert(q)

SpecApi == InitApi /\ [][NextApi]_vars

(***************************************************************************)
(* baccarat/service.py + baccarat/sql.py: single_room_loop                 *)
(***************************************************************************)
RoomOf(l) == l[2]

(* today_key(): datetime.now(TZ).date(), read anew by every statement *)
today_key == s_day

(* the rows of (day_key, room) *)
RoundsOf(d, room) == {r \in s_rounds : r.day_key = d /\ r.room = room}
Nos(d, room) == {r.round_no : r \in RoundsOf(d, room)}

(* the None that current_round_info returns when there is no row *)
NoRound == [day_key |-> 0, room |-> NULL, round_no |-> 0, phase |-> NULL,
            outcome |-> NULL, opened_at |-> NO_TIME]

MaxOf(S) == IF S = {} THEN 0 ELSE CHOOSE n \in S : \A m \in S : m <= n

(* current_round_info: the row of (today_key(), room) with the largest     *)
(* round_no, or NULL                                                       *)
current_round_info(room) ==
  IF RoundsOf(today_key, room) = {} THEN NoRound
  ELSE CHOOSE r \in RoundsOf(today_key, room) :
         r.round_no = MaxOf(Nos(today_key, room))

(* next_round_no: COALESCE(MAX(round_no), 0) + 1 over (today_key(), room) *)
svc_next_round_no(room) == MaxOf(Nos(today_key, room)) + 1

(* UPDATE rounds SET ... WHERE day_key=today_key() AND room AND round_no *)
UpdateRound(room, rn, field, value) ==
  {IF r.day_key = today_key /\ r.room = room /\ r.round_no = rn
     THEN [r EXCEPT ![field] = value] ELSE r : r \in s_rounds}

Release(l) == [k \in DOMAIN s_adv \ {kk \in DOMAIN s_adv : s_adv[kk] = l} |-> s_adv[k]]

(* lines 87-94: a new connection, pg_try_advisory_lock(lock_key) *)
svc_try_lock(l) ==
  /\ sl[l].pc = "top"
  /\ s_key[l] \notin DOMAIN s_adv
  /\ s_adv' = [k \in DOMAIN s_adv \cup {s_key[l]} |->
                 IF k = s_key[l] THEN l ELSE s_adv[k]]
  /\ sl' = [sl EXCEPT ![l].pc = "info"]
  /\ UNCHANGED <<s_day, s_rounds, s_key>>
  /\ UNCHANGED notSvc

(* line 98: if info is None or info["phase"] == "settled" *)
NeedsOpen_none(info) == info = NoRound

NeedsOpen(info) == info = NoRound \/ info.phase = "settled"

(* line 113: "deadline": taipei_now() + timedelta(seconds=BETTING_SECONDS) *)
NewDeadline(room) == clock + BETTING_SECONDS[room]

(* lines 97-98 and 109-114: the latest round of today; an unsettled one    *)
(* is adopted, the connection closes and the betting sleep starts          *)
svc_info(l) ==
  /\ sl[l].pc = "info"
  /\ LET info == current_round_info(RoomOf(l)) IN
       IF NeedsOpen(info)
         THEN /\ sl' = [sl EXCEPT ![l].pc = "next"]
              /\ UNCHANGED s_adv
         ELSE /\ sl' = [sl EXCEPT ![l].pc = "sleep", ![l].rn = info.round_no,
                                    ![l].deadline = NewDeadline(RoomOf(l))]
              /\ s_adv' = Release(l)
  /\ UNCHANGED <<s_day, s_rounds, s_key>>
  /\ UNCHANGED notSvc

(* line 99: rn = next_round_no(cur, room) *)
svc_next(l) ==
  /\ sl[l].pc = "next"
  /\ svc_next_round_no(RoomOf(l)) <= MaxRoundNo
  /\ sl' = [sl EXCEPT ![l].pc = "insert", ![l].rn = svc_next_round_no(RoomOf(l))]
  /\ UNCHANGED <<s_day, s_rounds, s_adv, s_key>>
  /\ UNCHANGED notSvc

(* lines 100-105: INSERT ... VALUES (today_key(), room, rn, 'betting')     *)
(* ON CONFLICT (day_key, room, round_no) DO NOTHING; commit. conflict      *)
(* records whether the statement inserted no row (the code does not read   *)
(* the row count)                                                          *)
Conflicts(room, rn) == rn \in Nos(today_key, room)

svc_insert(l) ==
  /\ sl[l].pc = "insert"
  /\ s_rounds' =
       IF Conflicts(RoomOf(l), sl[l].rn) THEN s_rounds
       ELSE s_rounds \cup {[day_key |-> today_key, room |-> RoomOf(l),
                             round_no |-> sl[l].rn, phase |-> "betting",
                             outcome |-> NULL, opened_at |-> clock]}
  /\ sl' = [sl EXCEPT ![l].pc = "reinfo",
                       ![l].conflict = Conflicts(RoomOf(l), sl[l].rn)]
  /\ UNCHANGED <<s_day, s_adv, s_key>>
  /\ UNCHANGED notSvc

(* lines 181-184: the handler of the loop body's try; err is the kind of   *)
(* exception it caught                                                     *)
SlExcept(e) == [SlTop EXCEPT !.pc = "except", !.err = e]

(* lines 106-114: info is read again; info["round_no"] of no row (None)    *)
(* raises TypeError, which the handler at line 181 catches                 *)
svc_reinfo(l) ==
  /\ sl[l].pc = "reinfo"
  /\ LET info == current_round_info(RoomOf(l)) IN
       IF info = NoRound
         THEN sl' = [sl EXCEPT ![l] = SlExcept("TypeError")]
         ELSE sl' = [sl EXCEPT ![l].pc = "sleep", ![l].rn = info.round_no,
                               ![l].conflict = FALSE,
                               ![l].deadline = NewDeadline(RoomOf(l))]
  /\ s_adv' = Release(l)
  /\ UNCHANGED <<s_day, s_rounds, s_key>>
  /\ UNCHANGED notSvc

(* lines 116-126: after the betting sleep, phase='reveal' *)
svc_lock_round(l) ==
  /\ sl[l].pc = "sleep"
  /\ s_rounds' = UpdateRound(RoomOf(l), sl[l].rn, "phase", "reveal")
  /\ sl' = [sl EXCEPT ![l].pc = "deal"]
  /\ UNCHANGED <<s_day, s_adv, s_key>>
  /\ UNCHANGED notSvc

(* lines 129-141: compute_baccarat_result, the outcome is stored *)
svc_deal(l) ==
  /\ sl[l].pc = "deal"
  /\ \E o \in Outcomes :
       /\ s_rounds' = UpdateRound(RoomOf(l), sl[l].rn, "outcome", o)
       /\ sl' = [sl EXCEPT ![l].pc = "settle", ![l].outcome = o]
  /\ UNCHANGED <<s_day, s_adv, s_key>>
  /\ UNCHANGED notSvc

(* lines 158-166: the credit of one bet; int(amt * 0.95) truncates *)
win_up(side, outcome, amt) ==
  IF outcome = "player" THEN (IF side = "player" THEN amt * 2 ELSE 0)
  ELSE IF outcome = "banker"
         THEN (IF side = "banker" THEN amt + (amt * 95 + 99) \div 100 ELSE 0)
  ELSE (IF side = "tie" THEN amt + amt * 8 ELSE amt)

win(side, outcome, amt) ==
  IF outcome = "player" THEN (IF side = "player" THEN amt * 2 ELSE 0)
  ELSE IF outcome = "banker"
         THEN (IF side = "banker" THEN amt + (amt * 95) \div 100 ELSE 0)
  ELSE (IF side = "tie" THEN amt + amt * 8 ELSE amt)

(* lines 152-157: SELECT ... FROM bets WHERE day_key=today_key() AND room  *)
(* AND round_no; the rows are those of the baccarat bets table, into       *)
(* which baccarat/api.py inserts without a day_key                         *)
SvcBetRows(room, rn) ==
  {i \in Reqs : /\ p_bets[i] # NoBet
                /\ p_bets[i].day_key = today_key
                /\ p_bets[i].room = room
                /\ p_bets[i].round_no = rn}

RECURSIVE SumWin(_, _, _)
SumWin(S, u, outcome) ==
  IF S = {} THEN 0
  ELSE LET i == CHOOSE x \in S : TRUE
           w == IF p_bets[i].user_id = u
                  THEN win(p_bets[i].side, outcome, p_bets[i].amount) ELSE 0
       IN w + SumWin(S \ {i}, u, outcome)

(* lines 144-179: after the reveal sleep, one transaction: every bet of    *)
(* (today_key(), room, rn) is credited with the outcome computed at the    *)
(* deal step, then phase='settled' WHERE day_key=today_key(), which is     *)
(* read again and may by then be the next day; commit; sleep(2)            *)
svc_settle(l) ==
  /\ sl[l].pc = "settle"
  /\ balance' = [u \in Users |->
                   balance[u] + SumWin(SvcBetRows(RoomOf(l), sl[l].rn), u, sl[l].outcome)]
  /\ \E d \in {s_day, s_day + 1} :
       /\ d <= MaxDay
       /\ s_day' = d
       /\ s_rounds' =
            {IF r.day_key = d /\ r.room = RoomOf(l) /\ r.round_no = sl[l].rn
               THEN [r EXCEPT !.phase = "settled"] ELSE r : r \in s_rounds}
  /\ sl' = [sl EXCEPT ![l] = SlTop]
  /\ UNCHANGED <<s_adv, s_key>>
  /\ UNCHANGED notSvcPay

(* lines 86-181: a statement of the loop body raises (the store is         *)
(* unreachable, a statement fails) or the process is restarted: the open   *)
(* transaction rolls back, the connection closes (its advisory lock goes)  *)
(* and control is in the handler, the locals of the iteration lost         *)
svc_fail(l) ==
  /\ sl[l].pc # "except"
  /\ sl' = [sl EXCEPT ![l] = SlExcept("Exception")]
  /\ s_adv' = Release(l)
  /\ UNCHANGED <<s_day, s_rounds, s_key>>
  /\ UNCHANGED notSvc

(* what the handler leaves of the loop: lines 181-184 print, sleep(2) and  *)
(* fall through to the next iteration of while True                        *)
AfterExcept_stop == [SlTop EXCEPT !.pc = "stopped"]

AfterExcept == SlTop

(* lines 181-185: except Exception: print, sleep(2), next iteration *)
svc_retry(l) ==
  /\ sl[l].pc = "except"
  /\ sl' = [sl EXCEPT ![l] = AfterExcept]
  /\ UNCHANGED <<s_day, s_rounds, s_adv, s_key>>
  /\ UNCHANGED notSvc

(* _room_state[room] of the process of loop l, at the positions where the  *)
(* running iteration has written it: lines 110-114 store the adopted       *)
(* round_no with phase "betting" before the betting sleep, line 126 sets   *)
(* phase "reveal" in the lock step; no other line writes the cache         *)
room_state(l) ==
  IF sl[l].pc = "sleep"
    THEN [round_no |-> sl[l].rn, phase |-> "betting", deadline |-> sl[l].deadline]
    ELSE [round_no |-> sl[l].rn, phase |-> "reveal", deadline |-> sl[l].deadline]

(* lines 14-25: get_state_snapshot answers from the cache *)
get_state_snapshot(l) ==
  [room |-> RoomOf(l), round_no |-> room_state(l).round_no,
   phase |-> room_state(l).phase]

(* baccarat/api.py history, lines 225-234: the rows of the room with an    *)
(* outcome, ORDER BY round_no DESC LIMIT limit; rows with equal round_no   *)
(* (of different days) come in an order the statement does not fix, so     *)
(* the answers are the sets of rows that some such order puts first        *)
HistoryRows(room) == {r \in s_rounds : r.room = room /\ r.outcome # NULL}

history(room, limit) ==
  {S \in SUBSET HistoryRows(room) :
     /\ Cardinality(S) = Min(limit, Cardinality(HistoryRows(room)))
     /\ \A r \in S, t \in HistoryRows(room) \ S : r.round_no >= t.round_no}

(* midnight in Asia/Taipei *)
DayTick ==
  /\ s_day < MaxDay
  /\ s_day' = s_day + 1
  /\ UNCHANGED <<s_rounds, s_adv, s_key, sl>>
  /\ UNCHANGED notSvc

InitSvc ==
  /\ clock = 0
  /\ balance = InitBalance
  /\ rowLock = [u \in Users |-> NULL]
  /\ a_rounds = <<>>
  /\ a_bets = [q \in Reqs |-> NoBet]
  /\ a_credited = [q \in Reqs |-> 0]
  /\ a_lock = NULL
  /\ dl = [d \in Dealers |-> DlTop]
  /\ rq = [q \in Reqs |-> RqNew]
  /\ p_rounds = <<>>
  /\ p_bets = [q \in Reqs |-> NoBet]
  /\ s_day = 0
  /\ s_rounds = {}
  /\ s_adv = [k \in {} |-> NULL]
  /\ s_key \in {f \in [SvcLoops -> LockKeys] : f[<<"p1", "room1">>] = "k1"}
  /\ sl = [l \in SvcLoops |-> SlTop]
  /\ py = PyIdle
  /\ hd = HdIdle

NextSvc ==
  \/ DayTick
  \/ \E l \in SvcLoops : svc_try_lock(l)
  \/ \E l \in SvcLoops : svc_info(l)
  \/ \E l \in SvcLoops : svc_next(l)
  \/ \E l \in SvcLoops : svc_insert(l)
  \/ \E l \in SvcLoops : svc_reinfo(l)
  \/ \E l \in SvcLoops : svc_lock_round(l)
  \/ \E l \in SvcLoops : svc_deal(l)
  \/ \E l \in SvcLoops : svc_settle(l)
  \/ \E l \in SvcLoops : svc_fail(l)
  \/ \E l \in SvcLoops : svc_retry(l)

SpecSvc == InitSvc /\ [][NextSvc]_vars

(* one statement of the loop going through: the body, lines 87-179, and   *)
(* the handler that the TypeError of line 109 reaches, lines 181-184       *)
LoopStep(l) ==
  \/ svc_try_lock(l)
  \/ svc_info(l)
  \/ svc_next(l)
  \/ svc_insert(l)
  \/ svc_reinfo(l)
  \/ svc_lock_round(l)
  \/ svc_deal(l)
  \/ svc_settle(l)
  \/ svc_retry(l)

(* one process running the loop of one room, from the day before the last  *)
(* day of the model on, so that one midnight falls into the run            *)
InitSvcOne ==
  /\ clock = 0
  /\ balance = InitBalance
  /\ rowLock = [u \in Users |-> NULL]
  /\ a_rounds = <<>>
  /\ a_bets = [q \in Reqs |-> NoBet]
  /\ a_credited = [q \in Reqs |-> 0]
  /\ a_lock = NULL
  /\ dl = [d \in Dealers |-> DlTop]
  /\ rq = [q \in Reqs |-> RqNew]
  /\ p_rounds = <<>>
  /\ p_bets = [q \in Reqs |-> NoBet]
  /\ s_day = MaxDay - 1
  /\ s_rounds = {}
  /\ s_adv = [k \in {} |-> NULL]
  /\ s_key = [l \in OneLoop |-> "k1"]
  /\ sl = [l \in OneLoop |-> SlTop]
  /\ py = PyIdle
  /\ hd = HdIdle

(* the store available and the process staying up: no statement raises     *)
(* but the TypeError of line 109; every sleep ends and every statement     *)
(* returns                                                                 *)
NextSvcOne ==
  \/ DayTick
  \/ \E l \in OneLoop : LoopStep(l)

SpecSvcOne ==
  /\ InitSvcOne
  /\ [][NextSvcOne]_vars
  /\ \A l \in OneLoop : WF_vars(LoopStep(l))

(* the bet intake of baccarat/api.py and room1's loop of service.py on one *)
(* bets table, within one day-key                                          *)
InitIntake ==
  /\ clock = 0
  /\ balance = ApiInitBalance
  /\ rowLock = [u \in Users |-> NULL]
  /\ a_rounds = <<>>
  /\ a_bets = [q \in Reqs |-> NoBet]
  /\ a_credited = [q \in Reqs |-> 0]
  /\ a_lock = NULL
  /\ dl = [d \in Dealers |-> DlTop]
  /\ rq = [q \in Reqs |-> RqNew]
  /\ p_rounds = <<>>
  /\ p_bets = [q \in Reqs |-> NoBet]
  /\ s_day = MaxDay
  /\ s_rounds = {}
  /\ s_adv = [k \in {} |-> NULL]
  /\ s_key = [l \in OneLoop |-> "k1"]
  /\ sl = [l \in OneLoop |-> SlTop]
  /\ py = PyIdle
  /\ hd = HdIdle

NextIntake ==
  \/ ApiTick
  \/ \E room \in ROOMS : open_round_spec(room)
  \/ \E q \in Reqs : api_place_bet_begin(q)
  \/ \E q \in Reqs : api_place_bet_check(q)
  \/ \E q \in Reqs : api_place_bet_insert(q)
  \/ \E l \in OneLoop : svc_try_lock(l)
  \/ \E l \in OneLoop : svc_info(l)
  \/ \E l \in OneLoop : svc_next(l)
  \/ \E l \in OneLoop : svc_insert(l)
  \/ \E l \in OneLoop : svc_reinfo(l)
  \/ \E l \in OneLoop : svc_lock_round(l)
  \/ \E l \in OneLoop : svc_deal(l)
  \/ \E l \in OneLoop : svc_settle(l)

SpecIntake == InitIntake /\ [][NextIntake]_vars

(* a second passes; the clock moves only while no loop is inside its open  *)
(* block;                                                                  *)
(* the sleeps of the loop are not timed: a step after a sleep is taken at  *)
(* some later instant                                                      *)
SvcTick ==
  /\ clock < MaxSvcClock
  /\ \A l \in DOMAIN sl : sl[l].pc \notin OpenBlockPcs
  /\ clock' = clock + 1
  /\ UNCHANGED <<balance, rowLock, appVars, rq, apiVars, svcVars, py, hd>>

(* the loop of room1 in one process, with failures and restarts, while     *)
(* the wall clock runs; the day is the last one of the model               *)
InitSvcClock ==
  /\ clock = 0
  /\ balance = InitBalance
  /\ rowLock = [u \in Users |-> NULL]
  /\ a_rounds = <<>>
  /\ a_bets = [q \in Reqs |-> NoBet]
  /\ a_credited = [q \in Reqs |-> 0]
  /\ a_lock = NULL
  /\ dl = [d \in Dealers |-> DlTop]
  /\ rq = [q \in Reqs |-> RqNew]
  /\ p_rounds = <<>>
  /\ p_bets = [q \in Reqs |-> NoBet]
  /\ s_day = MaxDay
  /\ s_rounds = {}
  /\ s_adv = [k \in {} |-> NULL]
  /\ s_key = [l \in OneLoop |-> "k1"]
  /\ sl = [l \in OneLoop |-> SlTop]
  /\ py = PyIdle
  /\ hd = HdIdle

NextSvcClock ==
  \/ SvcTick
  \/ \E l \in OneLoop : svc_try_lock(l)
  \/ \E l \in OneLoop : svc_info(l)
  \/ \E l \in OneLoop : svc_next(l)
  \/ \E l \in OneLoop : svc_insert(l)
  \/ \E l \in OneLoop : svc_reinfo(l)
  \/ \E l \in OneLoop : svc_lock_round(l)
  \/ \E l \in OneLoop : svc_deal(l)
  \/ \E l \in OneLoop : svc_settle(l)
  \/ \E l \in OneLoop : svc_fail(l)
  \/ \E l \in OneLoop : svc_retry(l)

SpecSvcClock == InitSvcClock /\ [][NextSvcClock]_vars

(* launch_all_rooms in one process: one loop per room, gathered; the day   *)
(* is the last one of the model, so that the rooms run within one day-key  *)
InitSvcRooms ==
  /\ clock = 0
  /\ balance = InitBalance
  /\ rowLock = [u \in Users |-> NULL]
  /\ a_rounds = <<>>
  /\ a_bets = [q \in Reqs |-> NoBet]
  /\ a_credited = [q \in Reqs |-> 0]
  /\ a_lock = NULL
  /\ dl = [d \in Dealers |-> DlTop]
  /\ rq = [q \in Reqs |-> RqNew]
  /\ p_rounds = <<>>
  /\ p_bets = [q \in Reqs |-> NoBet]
  /\ s_day = MaxDay
  /\ s_rounds = {}
  /\ s_adv = [k \in {} |-> NULL]
  /\ s_key \in {f \in [RoomLoops -> LockKeys] : f[<<"p1", "room1">>] = "k1"}
  /\ sl = [l \in RoomLoops |-> SlTop]
  /\ py = PyIdle
  /\ hd = HdIdle

NextSvcRooms ==
  \/ \E l \in RoomLoops : svc_try_lock(l)
  \/ \E l \in RoomLoops : svc_info(l)
  \/ \E l \in RoomLoops : svc_next(l)
  \/ \E l \in RoomLoops : svc_insert(l)
  \/ \E l \in RoomLoops : svc_reinfo(l)
  \/ \E l \in RoomLoops : svc_lock_round(l)
  \/ \E l \in RoomLoops : svc_deal(l)
  \/ \E l \in RoomLoops : svc_settle(l)
  \/ \E l \in RoomLoops : svc_fail(l)
  \/ \E l \in RoomLoops : svc_retry(l)

(* the handler's sleep(2) ends *)
SpecSvcRooms ==
  /\ InitSvcRooms
  /\ [][NextSvcRooms]_vars
  /\ \A l \in RoomLoops : WF_vars(svc_retry(l))

(* the loops with the store available and every process staying up: no    *)
(* statement raises; every sleep ends and every statement returns, so a    *)
(* loop whose next statement can go through does take it                   *)
NextSvcLive ==
  \/ DayTick
  \/ \E l \in SvcLoops : LoopStep(l)

SpecSvcLive ==
  /\ InitSvc
  /\ [][NextSvcLive]_vars
  /\ \A l \in SvcLoops : WF_vars(LoopStep(l))

(***************************************************************************)
(* The credit of one main bet, as each settlement computes it              *)
(***************************************************************************)
(* app.py lines 631-642: mult and credit(uid, amount * mult) of one bet *)
pay_app ==
  /\ py.app = NotPaid
  /\ py' = [py EXCEPT !.app = credit(py.side, py.outcome, py.amount)]
  /\ UNCHANGED notPay

(* baccarat/service.py lines 158-166: win of one bet *)
pay_svc ==
  /\ py.svc = NotPaid
  /\ py' = [py EXCEPT !.svc = win(py.side, py.outcome, py.amount)]
  /\ UNCHANGED notPay

InitPay ==
  /\ clock = 0
  /\ balance = InitBalance
  /\ rowLock = [u \in Users |-> NULL]
  /\ a_rounds = <<>>
  /\ a_bets = [q \in Reqs |-> NoBet]
  /\ a_credited = [q \in Reqs |-> 0]
  /\ a_lock = NULL
  /\ dl = [d \in Dealers |-> DlTop]
  /\ rq = [q \in Reqs |-> RqNew]
  /\ p_rounds = <<>>
  /\ p_bets = [q \in Reqs |-> NoBet]
  /\ s_day = 0
  /\ s_rounds = {}
  /\ s_adv = [k \in {} |-> NULL]
  /\ s_key = [l \in SvcLoops |-> "k1"]
  /\ sl = [l \in SvcLoops |-> SlTop]
  /\ py \in [side : MainSides, outcome : Outcomes, amount : 1..MaxAmount,
              app : {NotPaid}, svc : {NotPaid}]
  /\ hd = HdIdle

NextPay == pay_app \/ pay_svc

SpecPay == InitPay /\ [][NextPay]_vars

(***************************************************************************)
(* The credits of the bets of one round, row by row, as each settlement    *)
(* adds them up.  The rows come in the order the SELECT returns them,      *)
(* which no ORDER BY fixes: rows is any sequence of bets.                  *)
(***************************************************************************)
AggAmounts == {10, 33}
AggRow == [user : Users, side : MainSides, amount : AggAmounts]
NoPay == [u \in Users |-> 0]

(* app.py lines 623-624: pay_map[uid] = int(amt), the earlier sum dropped *)
AddCredit_last(acc, side, outcome, amount) == credit(side, outcome, amount)

(* app.py lines 623-624 and 641-642: credit(uid, amount * mult) adds       *)
(* int(amount * mult) to pay_map.get(uid, 0) when mult > 0                 *)
AddCredit(acc, side, outcome, amount) ==
  IF mult(side, outcome) > 0 THEN acc + credit(side, outcome, amount) ELSE acc

(* app.py lines 630-642: one row of the payout loop *)
agg_app ==
  /\ py.ai <= Len(py.rows)
  /\ LET r == py.rows[py.ai] IN
       py' = [py EXCEPT !.ai = @ + 1,
                        !.pay[r.user] = AddCredit(@, r.side, py.outcome, r.amount)]
  /\ UNCHANGED notPay

(* service.py lines 157-169: one row of the settlement loop; a positive    *)
(* win is added to the user's balance by its own UPDATE                    *)
agg_svc ==
  /\ py.si <= Len(py.rows)
  /\ LET r == py.rows[py.si]
         w == win(r.side, py.outcome, r.amount)
     IN py' = [py EXCEPT !.si = @ + 1,
                         !.paid[r.user] = IF w > 0 THEN @ + w ELSE @]
  /\ UNCHANGED notPay

InitAgg ==
  /\ clock = 0
  /\ balance = InitBalance
  /\ rowLock = [u \in Users |-> NULL]
  /\ a_rounds = <<>>
  /\ a_bets = [q \in Reqs |-> NoBet]
  /\ a_credited = [q \in Reqs |-> 0]
  /\ a_lock = NULL
  /\ dl = [d \in Dealers |-> DlTop]
  /\ rq = [q \in Reqs |-> RqNew]
  /\ p_rounds = <<>>
  /\ p_bets = [q \in Reqs |-> NoBet]
  /\ s_day = 0
  /\ s_rounds = {}
  /\ s_adv = [k \in {} |-> NULL]
  /\ s_key = [l \in SvcLoops |-> "k1"]
  /\ sl = [l \in SvcLoops |-> SlTop]
  /\ py \in [rows : UNION {[1..n -> AggRow] : n \in 1..MaxBets},
              outcome : Outcomes, ai : {1}, pay : {NoPay}, si : {1},
              paid : {NoPay}]
  /\ hd = HdIdle

NextAgg == agg_app \/ agg_svc

SpecAgg == InitAgg /\ [][NextAgg]_vars

(***************************************************************************)
(* app.py: the pair side bets of one round at settlement.  The round has   *)
(* one bet of the same amount on each pair side.                           *)
(***************************************************************************)
PairSides == {"player_pair", "banker_pair", "any_pair", "perfect_pair"}
PAIR_ODDS == [player_pair |-> 1100, banker_pair |-> 1100, any_pair |-> 500,
              perfect_pair |-> 2500]
NoPairs == [player_pair |-> FALSE, banker_pair |-> FALSE, any_pair |-> FALSE,
            perfect_pair |-> FALSE]

(* lines 510-516: random_pairs draws three flags one by one; any_pair is   *)
(* False                                                                   *)
random_pairs ==
  /\ py.pc = "draw"
  /\ \E pp \in BOOLEAN, bp \in BOOLEAN, pf \in BOOLEAN :
       py' = [py EXCEPT !.pc = "pay",
                        !.pairs = [player_pair |-> pp, banker_pair |-> bp,
                                   any_pair |-> FALSE, perfect_pair |-> pf]]
  /\ UNCHANGED notPay

(* lines 625-630: pair_result *)
pair_result(pairs) ==
  [player_pair |-> pairs.player_pair,
   banker_pair |-> pairs.banker_pair,
   any_pair |-> pairs.player_pair \/ pairs.banker_pair,
   perfect_pair |-> pairs.perfect_pair]

(* lines 632-640: mult of one row, in hundredths *)
row_mult(side, bet_type, outcome, pr) ==
  IF bet_type = "main" THEN mult(side, outcome)
  ELSE IF pr[bet_type] THEN 100 + PAIR_ODDS[bet_type] ELSE 0

(* lines 641-642: credit(uid, amount * mult) when mult > 0 *)
row_credit(side, bet_type, outcome, pr, amount) ==
  IF row_mult(side, bet_type, outcome, pr) > 0
    THEN (amount * row_mult(side, bet_type, outcome, pr)) \div 100 ELSE 0

(* lines 631-642: the payout loop over the four side bets (bet_type is the *)
(* side, line 364)                                                         *)
pair_pay ==
  /\ py.pc = "pay"
  /\ py' = [py EXCEPT !.pc = "done",
                      !.credit = [sd \in PairSides |->
                                    row_credit(sd, sd, py.outcome,
                                               pair_result(py.pairs), py.amount)]]
  /\ UNCHANGED notPay

InitPair ==
  /\ clock = 0
  /\ balance = InitBalance
  /\ rowLock = [u \in Users |-> NULL]
  /\ a_rounds = <<>>
  /\ a_bets = [q \in Reqs |-> NoBet]
  /\ a_credited = [q \in Reqs |-> 0]
  /\ a_lock = NULL
  /\ dl = [d \in Dealers |-> DlTop]
  /\ rq = [q \in Reqs |-> RqNew]
  /\ p_rounds = <<>>
  /\ p_bets = [q \in Reqs |-> NoBet]
  /\ s_day = 0
  /\ s_rounds = {}
  /\ s_adv = [k \in {} |-> NULL]
  /\ s_key = [l \in SvcLoops |-> "k1"]
  /\ sl = [l \in SvcLoops |-> SlTop]
  /\ py \in [pc : {"draw"}, amount : 1..MaxAmount, outcome : Outcomes,
              pairs : {NoPairs}, credit : {[sd \in PairSides |-> 0]}]
  /\ hd = HdIdle

NextPair == random_pairs \/ pair_pay

SpecPair == InitPair /\ [][NextPair]_vars

(***************************************************************************)
(* The hand evaluators: baccarat/logic.py deal_round and                   *)
(* baccarat/service.py compute_baccarat_result.  A card is kept as its     *)
(* point value; its rank (1..13 for A, 2..10, J, Q, K) is what is drawn.   *)
(***************************************************************************)
Ranks == 1..13

(* logic.py card_value: 10, J, Q, K count 0, A counts 1, else the rank *)
card_value(rank) == IF rank >= 10 THEN 0 ELSE IF rank = 1 THEN 1 ELSE rank

(* service.py draw_card: 1 if v == 1 else (0 if v >= 10 else v) *)
draw_card(v) == IF v = 1 THEN 1 ELSE (IF v >= 10 THEN 0 ELSE v)

RECURSIVE SumSeq(_)
SumSeq(cards) == IF cards = <<>> THEN 0 ELSE Head(cards) + SumSeq(Tail(cards))

(* a total that forgets to drop the tens *)
hand_total_raw(cards) == SumSeq(cards)

(* logic.py hand_total *)
hand_total(cards) == SumSeq(cards) % 10

(* service.py total *)
total(cards) == SumSeq(cards) % 10

(* fresh_shoe is one deck: four cards of each rank, so at most 4 cards of   *)
(* a point value 1..9 and at most 16 of value 0 can come off it            *)
CountOf(v, cards) == Cardinality({i \in 1..Len(cards) : cards[i] = v})
InShoe(v, drawn) == CountOf(v, drawn) < (IF v = 0 THEN 16 ELSE 4)

(* a natural that only looks at the player's hand *)
IsNatural_player_only(pt, bt) == pt \in {8, 9}

(* "if pt in (8,9) or bt in (8,9)" of both evaluators *)
IsNatural(pt, bt) == pt \in {8, 9} \/ bt \in {8, 9}

(* a player who also draws on 6 *)
PlayerDraws_on6(pt) == pt <= 6

(* "if pt <= 5" of both evaluators *)
PlayerDraws(pt) == pt <= 5

(* a table without the exception for a third card of 8 *)
BankerDraws_no8(bt, v) ==
  IF bt <= 2 THEN TRUE
  ELSE IF bt = 3 THEN TRUE
  ELSE IF bt = 4 /\ v \in 2..7 THEN TRUE
  ELSE IF bt = 5 /\ v \in 4..7 THEN TRUE
  ELSE IF bt = 6 /\ v \in 6..7 THEN TRUE
  ELSE FALSE

(* the if / elif chain over the banker total and the player's third card *)
BankerDraws(bt, v) ==
  IF bt <= 2 THEN TRUE
  ELSE IF bt = 3 /\ v # 8 THEN TRUE
  ELSE IF bt = 4 /\ v \in 2..7 THEN TRUE
  ELSE IF bt = 5 /\ v \in 4..7 THEN TRUE
  ELSE IF bt = 6 /\ v \in 6..7 THEN TRUE
  ELSE FALSE

(* logic.py _result, and service.py line 130 *)
outcome_of(pt, bt) ==
  IF pt > bt THEN "player" ELSE IF bt > pt THEN "banker" ELSE "tie"

(* logic.py _result(p, b): the totals are computed again from the cards *)
HdResult(h) ==
  [h EXCEPT !.pc = "done", !.pt = hand_total(h.p), !.bt = hand_total(h.b),
            !.outcome = outcome_of(hand_total(h.p), hand_total(h.b))]

(* an outcome that looks at the bets table: a side somebody has bet on     *)
(* does not win                                                            *)
HdReturn_pool(h) ==
  [h EXCEPT !.pc = "done",
            !.outcome = IF \E q \in Reqs : p_bets[q].side = outcome_of(h.pt, h.bt)
                          THEN "tie" ELSE outcome_of(h.pt, h.bt)]

(* service.py lines 129-130: the totals the function returns decide *)
HdReturn(h) == [h EXCEPT !.pc = "done", !.outcome = outcome_of(h.pt, h.bt)]

(* logic.py lines 35-45: the first four cards off the shoe, naturals *)
deal_round_deal ==
  /\ hd.impl = "logic" /\ hd.pc = "deal"
  /\ \E r1, r2, r3, r4 \in Ranks :
       LET p == <<card_value(r1), card_value(r2)>>
           b == <<card_value(r3), card_value(r4)>>
           h == [hd EXCEPT !.p = p, !.b = b, !.pt = hand_total(p),
                           !.bt = hand_total(b)]
       IN /\ InShoe(p[2], <<p[1]>>)
          /\ InShoe(b[1], p)
          /\ InShoe(b[2], p \o <<b[1]>>)
          /\ hd' = IF IsNatural(h.pt, h.bt) THEN HdResult(h)
                    ELSE [h EXCEPT !.pc = "player"]
  /\ UNCHANGED notHand

(* logic.py lines 47-52 *)
deal_round_player ==
  /\ hd.impl = "logic" /\ hd.pc = "player"
  /\ IF PlayerDraws(hd.pt)
       THEN \E r \in Ranks :
              /\ InShoe(card_value(r), hd.p \o hd.b)
              /\ hd' = [hd EXCEPT !.pc = "banker", !.p3 = TRUE,
                                   !.p = Append(hd.p, card_value(r)),
                                   !.pt = hand_total(Append(hd.p, card_value(r)))]
       ELSE hd' = [hd EXCEPT !.pc = "banker"]
  /\ UNCHANGED notHand

(* logic.py lines 54-76 *)
deal_round_banker ==
  /\ hd.impl = "logic" /\ hd.pc = "banker"
  /\ LET draw == IF ~hd.p3 THEN hd.bt <= 5 ELSE BankerDraws(hd.bt, hd.p[3]) IN
       IF draw
         THEN \E r \in Ranks :
                /\ InShoe(card_value(r), hd.p \o hd.b)
                /\ hd' = HdResult([hd EXCEPT !.b3 = TRUE,
                                             !.b = Append(hd.b, card_value(r))])
         ELSE hd' = HdResult(hd)
  /\ UNCHANGED notHand

(* service.py lines 38-45 *)
cbr_deal ==
  /\ hd.impl = "service" /\ hd.pc = "deal"
  /\ \E v1, v2, v3, v4 \in Ranks :
       LET p == <<draw_card(v1), draw_card(v2)>>
           b == <<draw_card(v3), draw_card(v4)>>
           h == [hd EXCEPT !.p = p, !.b = b, !.pt = total(p), !.bt = total(b)]
       IN hd' = IF IsNatural(h.pt, h.bt) THEN HdReturn(h)
                ELSE [h EXCEPT !.pc = "player"]
  /\ UNCHANGED notHand

(* service.py lines 47-52 *)
cbr_player ==
  /\ hd.impl = "service" /\ hd.pc = "player"
  /\ IF PlayerDraws(hd.pt)
       THEN \E v \in Ranks :
              hd' = [hd EXCEPT !.pc = "banker", !.p3 = TRUE,
                               !.p = Append(hd.p, draw_card(v)),
                               !.pt = total(Append(hd.p, draw_card(v)))]
       ELSE hd' = [hd EXCEPT !.pc = "banker"]
  /\ UNCHANGED notHand

(* service.py lines 54-80, and the outcome of line 130 *)
cbr_banker ==
  /\ hd.impl = "service" /\ hd.pc = "banker"
  /\ LET draw == IF ~hd.p3 THEN hd.bt <= 5 ELSE BankerDraws(hd.bt, hd.p[3]) IN
       IF draw
         THEN \E v \in Ranks :
                hd' = HdReturn([hd EXCEPT !.b3 = TRUE,
                                         !.b = Append(hd.b, draw_card(v)),
                                         !.bt = total(Append(hd.b, draw_card(v)))])
         ELSE hd' = HdReturn(hd)
  /\ UNCHANGED notHand

(* random.random(), in hundredths: the values at the ends of the three     *)
(* ranges of random_outcome                                                *)
RandomPoints == {0, 45, 46, 89, 90, 99}

(* app.py lines 492-495 *)
outcome_at(r) ==
  IF r < 46 THEN "banker" ELSE IF r < 90 THEN "player" ELSE "tie"

(* app.py lines 491-495 and 609: random_outcome *)
random_outcome ==
  /\ hd.impl = "auto" /\ hd.pc = "deal"
  /\ \E r \in RandomPoints :
       hd' = [hd EXCEPT !.pc = "totals", !.r = r, !.outcome = outcome_at(r)]
  /\ UNCHANGED notHand

(* app.py lines 497-503: the ranges random_totals draws pt and bt from *)
TotalsOf(outcome) ==
  IF outcome = "tie" THEN {<<t, t>> : t \in 0..9}
  ELSE IF outcome = "player" THEN (5..9) \X (0..7)
  ELSE (0..7) \X (5..9)

(* app.py lines 497-504 and 610-611: random_totals(outcome) returns        *)
(* pt % 10, bt % 10; p3, b3 = (pt <= 5), (bt <= 5)                         *)
random_totals ==
  /\ hd.impl = "auto" /\ hd.pc = "totals"
  /\ \E t \in TotalsOf(hd.outcome) :
       hd' = [hd EXCEPT !.pc = "done", !.pt = t[1] % 10, !.bt = t[2] % 10,
                        !.p3 = (t[1] % 10 <= 5), !.b3 = (t[2] % 10 <= 5)]
  /\ UNCHANGED notHand

(* the result a dealer stores on the round row: single_room_loop through   *)
(* compute_baccarat_result, auto_dealer_loop through random_outcome and    *)
(* random_totals                                                           *)
InitDeal ==
  /\ clock = 0
  /\ balance = InitBalance
  /\ rowLock = [u \in Users |-> NULL]
  /\ a_rounds = <<>>
  /\ a_bets = [q \in Reqs |-> NoBet]
  /\ a_credited = [q \in Reqs |-> 0]
  /\ a_lock = NULL
  /\ dl = [d \in Dealers |-> DlTop]
  /\ rq = [q \in Reqs |-> RqNew]
  /\ p_rounds = <<>>
  /\ p_bets = [q \in Reqs |-> NoBet]
  /\ s_day = 0
  /\ s_rounds = {}
  /\ s_adv = [k \in {} |-> NULL]
  /\ s_key = [l \in SvcLoops |-> "k1"]
  /\ sl = [l \in SvcLoops |-> SlTop]
  /\ py = PyIdle
  /\ hd \in {[HdIdle EXCEPT !.impl = i, !.pc = "deal"] : i \in {"service", "auto"}}

NextDeal ==
  \/ cbr_deal
  \/ cbr_player
  \/ cbr_banker
  \/ random_outcome
  \/ random_totals

SpecDeal == InitDeal /\ [][NextDeal]_vars

(* the bets on the round being dealt: none, or one main bet of u1 in the   *)
(* bets table of each variant                                              *)
BlindBets ==
  {[q \in Reqs |-> NoBet]} \cup
  {[q \in Reqs |->
      IF q = "q1"
        THEN [NoBet EXCEPT !.user_id = "u1", !.room = "room1", !.round_no = 1,
                           !.side = sd, !.amount = 50, !.bet_type = "main"]
        ELSE NoBet] : sd \in {"player", "banker"}}

(* a dealer path deals a round that holds any of these bets *)
InitBlind ==
  /\ clock = 0
  /\ balance = InitBalance
  /\ rowLock = [u \in Users |-> NULL]
  /\ a_rounds = <<>>
  /\ \E B \in BlindBets : a_bets = B /\ p_bets = B
  /\ a_credited = [q \in Reqs |-> 0]
  /\ a_lock = NULL
  /\ dl = [d \in Dealers |-> DlTop]
  /\ rq = [q \in Reqs |-> RqNew]
  /\ p_rounds = <<>>
  /\ s_day = 0
  /\ s_rounds = {}
  /\ s_adv = [k \in {} |-> NULL]
  /\ s_key = [l \in SvcLoops |-> "k1"]
  /\ sl = [l \in SvcLoops |-> SlTop]
  /\ py = PyIdle
  /\ hd \in {[HdIdle EXCEPT !.impl = i, !.pc = "deal"] : i \in {"service", "auto"}}

SpecBlind == InitBlind /\ [][NextDeal]_vars

InitHand ==
  /\ clock = 0
  /\ balance = InitBalance
  /\ rowLock = [u \in Users |-> NULL]
  /\ a_rounds = <<>>
  /\ a_bets = [q \in Reqs |-> NoBet]
  /\ a_credited = [q \in Reqs |-> 0]
  /\ a_lock = NULL
  /\ dl = [d \in Dealers |-> DlTop]
  /\ rq = [q \in Reqs |-> RqNew]
  /\ p_rounds = <<>>
  /\ p_bets = [q \in Reqs |-> NoBet]
  /\ s_day = 0
  /\ s_rounds = {}
  /\ s_adv = [k \in {} |-> NULL]
  /\ s_key = [l \in SvcLoops |-> "k1"]
  /\ sl = [l \in SvcLoops |-> SlTop]
  /\ py = PyIdle
  /\ hd \in {[HdIdle EXCEPT !.impl = i, !.pc = "deal"] : i \in {"logic", "service"}}

NextHand ==
  \/ deal_round_deal
  \/ deal_round_player
  \/ deal_round_banker
  \/ cbr_deal
  \/ cbr_player
  \/ cbr_banker

SpecHand == InitHand /\ [][NextHand]_vars

(***************************************************************************)
(* Claims checked under SpecHand                                           *)
(***************************************************************************)
(* the two-card totals of the hand, from its first four cards *)
TwoCardP == (hd.p[1] + hd.p[2]) % 10
TwoCardB == (hd.b[1] + hd.b[2]) % 10
NaturalHand == TwoCardP \in {8, 9} \/ TwoCardB \in {8, 9}

(* C11: hand result: a finished hand returns player_total and banker_total *)
(* in 0..9, each the total of that side's cards, and the outcome is player *)
(* iff player_total > banker_total, banker iff banker_total >              *)
(* player_total, tie iff they are equal.                                   *)
C11_HandResult ==
  hd.pc = "done" =>
    /\ hd.pt \in 0..9 /\ hd.bt \in 0..9
    /\ hd.pt = SumSeq(hd.p) % 10 /\ hd.bt = SumSeq(hd.b) % 10
    /\ (hd.outcome = "player" <=> hd.pt > hd.bt)
    /\ (hd.outcome = "banker" <=> hd.bt > hd.pt)
    /\ (hd.outcome = "tie" <=> hd.pt = hd.bt)

C11_Witness ==
  /\ hd.pc = "done" /\ hd.impl = "logic"
  /\ hd.p = <<5, 0, 9>> /\ hd.b = <<6, 0>>
  /\ hd.pt = 4 /\ hd.bt = 6 /\ hd.outcome = "banker"

(* C12: natural rule: when either two-card total is 8 or 9, the finished   *)
(* hand has exactly two cards on each side and its outcome is the          *)
(* comparison of the two-card totals.                                      *)
C12_Natural ==
  (hd.pc = "done" /\ NaturalHand) =>
    /\ Len(hd.p) = 2 /\ Len(hd.b) = 2
    /\ ~hd.p3 /\ ~hd.b3
    /\ hd.outcome = (IF TwoCardP > TwoCardB THEN "player"
                      ELSE IF TwoCardB > TwoCardP THEN "banker" ELSE "tie")

C12_Witness ==
  /\ hd.pc = "done" /\ hd.impl = "service"
  /\ hd.p = <<1, 2>> /\ hd.b = <<4, 4>> /\ hd.outcome = "banker"

(* C13: banker third-card table: in a finished non-natural hand the banker *)
(* has a third card exactly when the player did not draw and bt <= 5, or   *)
(* the player drew t and (bt <= 2, or bt = 3 and t # 8, or bt = 4 and t in *)
(* 2..7, or bt = 5 and t in 4..7, or bt = 6 and t in {6,7}); bt is the     *)
(* banker's two-card total; with bt = 7 the banker never draws.            *)
C13_BankerTable ==
  (hd.pc = "done" /\ ~NaturalHand) =>
    LET bt == TwoCardB
        drew == Len(hd.p) = 3
        t == IF drew THEN hd.p[3] ELSE 0
    IN /\ (Len(hd.b) = 3) <=>
            \/ (~drew /\ bt <= 5)
            \/ (drew /\ (\/ bt <= 2
                          \/ (bt = 3 /\ t # 8)
                          \/ (bt = 4 /\ t \in 2..7)
                          \/ (bt = 5 /\ t \in 4..7)
                          \/ (bt = 6 /\ t \in {6, 7})))
       /\ hd.b3 = (Len(hd.b) = 3)
       /\ (bt = 7 => Len(hd.b) = 2)

C13_Witness ==
  /\ hd.pc = "done" /\ hd.impl = "service"
  /\ hd.p = <<2, 3, 8>> /\ hd.b = <<3, 0>> /\ ~hd.b3

(* C14: player third card: in a finished hand where neither two-card total *)
(* is 8 or 9 the player has a third card iff the player's two-card total   *)
(* is <= 5.                                                                *)
C14_PlayerThird ==
  (hd.pc = "done" /\ ~NaturalHand) =>
    /\ ((Len(hd.p) = 3) <=> (TwoCardP <= 5))
    /\ hd.p3 = (Len(hd.p) = 3)

C14_Witness ==
  /\ hd.pc = "done" /\ hd.impl = "logic"
  /\ hd.p = <<6, 0>> /\ hd.b = <<2, 2, 1>> /\ ~hd.p3

(***************************************************************************)
(* Claims checked under SpecPay                                            *)
(***************************************************************************)
C9_Table(s, o, a) ==
  IF s = o
    THEN (IF s = "player" THEN 2 * a
          ELSE IF s = "banker" THEN (195 * a) \div 100
          ELSE 9 * a)
    ELSE (IF o = "tie" THEN a ELSE 0)

(* C9: payout table: the credit of a main bet (side s, amount a >= 1) on   *)
(* outcome o is 2a if s=o=player, floor(1.95a) = a + floor(95a/100) if     *)
(* s=o=banker, 9a if s=o=tie, a if o=tie and s is player or banker, and 0  *)
(* otherwise, in both settlements.                                         *)
C9_PayoutTable ==
  /\ py.app # NotPaid => py.app = C9_Table(py.side, py.outcome, py.amount)
  /\ py.svc # NotPaid => py.svc = C9_Table(py.side, py.outcome, py.amount)
  /\ py.amount + (95 * py.amount) \div 100 = (195 * py.amount) \div 100

C9_Witness ==
  /\ py.side = "banker" /\ py.outcome = "banker" /\ py.amount = 33
  /\ py.app = 64 /\ py.svc = 64

(***************************************************************************)
(* Claims checked under SpecAgg                                            *)
(***************************************************************************)
(* the rows as a bag: what a reordering of the rows keeps *)
RowBag(rows) ==
  [r \in {rows[i] : i \in 1..Len(rows)} |->
     Cardinality({i \in 1..Len(rows) : rows[i] = r})]

(* the sum of the table's credits over the bets of user u in the bag B,    *)
(* each bet rounded apart                                                  *)
RECURSIVE SumTable(_, _, _, _)
SumTable(B, D, u, o) ==
  IF D = {} THEN 0
  ELSE LET r == CHOOSE x \in D : TRUE
       IN (IF r.user = u THEN B[r] * C9_Table(r.side, o, r.amount) ELSE 0)
            + SumTable(B, D \ {r}, u, o)

(* what the odds table gives user u for the rows, in any order *)
TableTotal(rows, u, o) == SumTable(RowBag(rows), DOMAIN RowBag(rows), u, o)

(* C34: per-user aggregation: once a settlement has gone through the bets  *)
(* of a round, what it credits to each user is the sum over the user's     *)
(* bets of the per-bet credit of the odds table (banker rounding on each   *)
(* bet apart), in both settlements and whatever the order of the rows.     *)
C34_PerUserSum ==
  \A u \in Users :
     /\ py.ai > Len(py.rows)
          => py.pay[u] = TableTotal(py.rows, u, py.outcome)
     /\ py.si > Len(py.rows)
          => py.paid[u] = TableTotal(py.rows, u, py.outcome)

(* C34 witness: u1 holds two banker bets of 10 and one of 33 in a round    *)
(* the banker wins; both settlements have credited 19 + 19 + 64.           *)
C34_Witness ==
  /\ py.outcome = "banker" /\ Len(py.rows) = 3
  /\ py.ai > Len(py.rows) /\ py.si > Len(py.rows)
  /\ \A i \in 1..3 : py.rows[i].user = "u1" /\ py.rows[i].side = "banker"
  /\ py.rows[1].amount = 10 /\ py.rows[2].amount = 33 /\ py.rows[3].amount = 10
  /\ py.pay["u1"] = 102 /\ py.paid["u1"] = 102

(***************************************************************************)
(* Claims checked under SpecPair                                           *)
(***************************************************************************)
(* what two dealt hands can show: each hand's first two cards are a pair   *)
(* or not, and a perfect pair (same rank and suit) is a pair of one hand   *)
DealtPairs ==
  {h \in [player_pair : BOOLEAN, banker_pair : BOOLEAN, perfect_pair : BOOLEAN] :
     h.perfect_pair => (h.player_pair \/ h.banker_pair)}

(* the pair condition of a side on hands h *)
PairHolds(sd, h) ==
  IF sd = "any_pair" THEN h.player_pair \/ h.banker_pair ELSE h[sd]

(* a to b odds: the stake and b times the stake *)
PairTable(sd, a) ==
  a * (1 + (IF sd = "any_pair" THEN 5 ELSE IF sd = "perfect_pair" THEN 25 ELSE 11))

(* C35: pair side bets: the side bets of a settled round are credited      *)
(* a*(1+odds), odds 11 / 11 / 5 / 25, exactly when their pair condition    *)
(* holds on the hands dealt for the round, and 0 otherwise, whatever the   *)
(* main outcome.                                                           *)
C35_PairBets ==
  py.pc = "done"
    => \E h \in DealtPairs :
          \A sd \in PairSides :
             py.credit[sd] = IF PairHolds(sd, h) THEN PairTable(sd, py.amount) ELSE 0

(***************************************************************************)
(* Claims checked under SpecDeal                                           *)
(***************************************************************************)
(* C37: stored result consistency: the result a dealer path stores has     *)
(* outcome player iff player_total > banker_total, banker iff              *)
(* banker_total > player_total, tie iff they are equal, and both totals    *)
(* in 0..9, for single_room_loop and for auto_dealer_loop alike.           *)
C37_ResultConsistent ==
  hd.pc = "done"
    => /\ hd.pt \in 0..9 /\ hd.bt \in 0..9
       /\ (hd.outcome = "player") = (hd.pt > hd.bt)
       /\ (hd.outcome = "banker") = (hd.bt > hd.pt)
       /\ (hd.outcome = "tie") = (hd.pt = hd.bt)

(* the finished hand h is what its cards alone determine: who drew a      *)
(* third card, the totals and the outcome                                  *)
CardsDecide(h) ==
  LET pt2 == total(SubSeq(h.p, 1, 2))
      bt2 == total(SubSeq(h.b, 1, 2))
      pdraw == ~IsNatural(pt2, bt2) /\ PlayerDraws(pt2)
      bdraw == /\ ~IsNatural(pt2, bt2)
               /\ IF pdraw THEN BankerDraws(bt2, h.p[3]) ELSE bt2 <= 5
  IN /\ Len(h.p) = (IF pdraw THEN 3 ELSE 2)
     /\ Len(h.b) = (IF bdraw THEN 3 ELSE 2)
     /\ h.pt = total(h.p) /\ h.bt = total(h.b)
     /\ h.outcome = outcome_of(total(h.p), total(h.b))

(* the result of auto_dealer_loop is what its random draws determine *)
DrawsDecide(h) ==
  /\ h.outcome = outcome_at(h.r)
  /\ <<h.pt, h.bt>> \in TotalsOf(outcome_at(h.r))

(* C39: outcome does not depend on wagers: whatever bets the round holds,  *)
(* the dealt totals and the outcome are the function of the card draws     *)
(* (random draws) alone, so two executions that differ only in the bets    *)
(* and use the same draws store the same result.                           *)
C39_BlindToWagers ==
  hd.pc = "done"
    => IF hd.impl = "service" THEN CardsDecide(hd) ELSE DrawsDecide(hd)

(* C39 witness: u1 has 50 on banker; the hand 6,0 against 2,2,3 is dealt   *)
(* and the banker wins 7 to 6, as with any other bets                      *)
C39_Witness ==
  /\ hd.pc = "done" /\ hd.impl = "service"
  /\ p_bets["q1"].side = "banker" /\ p_bets["q1"].amount = 50
  /\ hd.p = <<6, 0>> /\ hd.b = <<2, 2, 3>>
  /\ hd.pt = 6 /\ hd.bt = 7 /\ hd.outcome = "banker"

(***************************************************************************)
(* Claims checked under SpecSvc                                            *)
(***************************************************************************)
Days == 0..MaxDay

(* the loops that are inside a cycle for the room: past the advisory lock  *)
(* and not yet back at the top of the while loop or in its handler        *)
Driving(room) ==
  {l \in SvcLoops : RoomOf(l) = room /\ sl[l].pc \notin {"top", "except"}}

(* C15: scheduler mutual exclusion: of the processes whose loops compute   *)
(* the same advisory lock key for a room, at most one is between taking    *)
(* the lock and finishing the open / sleep / lock / deal / settle cycle.   *)
C15_MutualExclusion ==
  \A room \in ROOMS :
     (\A l1, l2 \in SvcLoops : s_key[l1] = s_key[l2])
       => Cardinality(Driving(room)) <= 1

(* no two rows of the rounds table share (day_key, room, round_no) *)
UniqueSlot ==
  \A r1, r2 \in s_rounds :
     (r1.day_key = r2.day_key /\ r1.room = r2.room /\ r1.round_no = r2.round_no)
       => r1 = r2

(* the loop whose INSERT found the slot taken goes on from its second      *)
(* current_round_info to the betting sleep, holding the number it tried    *)
AdoptsExisting(l) ==
  (/\ sl[l].pc = "reinfo"
   /\ sl[l].conflict
   /\ sl'[l].pc # "reinfo"
   /\ sl'[l].err # "Exception")
    => (sl'[l].pc = "sleep" /\ sl'[l].rn = sl[l].rn)

(* C16: idempotent open: when two instances insert the same (day_key,      *)
(* room, round_no), one row of that triple exists afterwards, and the      *)
(* instance whose insert lost adopts that row without raising an error.    *)
C16_IdempotentOpen ==
  /\ []UniqueSlot
  /\ [][\A l \in SvcLoops : AdoptsExisting(l)]_vars

(* the row (d, room, n) is stored with phase ph *)
InPhase(d, room, n, ph) ==
  \E r \in s_rounds :
     r.day_key = d /\ r.room = room /\ r.round_no = n /\ r.phase = ph

(* C17: run to settlement: with the store available and the loops          *)
(* scheduled fairly, every round whose betting was closed (phase reveal)   *)
(* reaches phase settled, also when its window or its reveal delay spans   *)
(* midnight.                                                               *)
C17_RunToSettlement ==
  \A d \in 0..MaxDay, room \in ROOMS, n \in 1..MaxRoundNo :
     InPhase(d, room, n, "reveal") ~> InPhase(d, room, n, "settled")

(* the positions of a running loop: the statements of the body of while    *)
(* True and its handler                                                    *)
LoopPcs == {"top", "info", "next", "insert", "reinfo", "sleep", "deal",
            "settle", "except"}

(* an exception in loop l reaches the handler of l and leaves every other  *)
(* loop where it is                                                        *)
CaughtInside(l) ==
  (sl[l].pc # "except" /\ sl'[l].pc = "except")
    => \A l2 \in RoomLoops \ {l} : sl'[l2] = sl[l2]

(* C19: scheduler survives failures: an exception raised in any            *)
(* transition of a room's loop is caught inside that loop, is followed by  *)
(* the retry delay and a re-entry of the loop at its top, and stops        *)
(* neither that loop nor the loop of another room.                         *)
C19_SurvivesFailures ==
  /\ [](\A l \in RoomLoops : sl[l].pc \in LoopPcs)
  /\ [][\A l \in RoomLoops : CaughtInside(l)]_vars
  /\ \A l \in RoomLoops : (sl[l].pc = "except") ~> (sl[l].pc = "top")

(* C19 witness: room1's loop failed after it had locked and dealt round 1, *)
(* re-entered and is running that round again, while room2's loop is in    *)
(* the middle of its own round.                                            *)
C19_Witness ==
  /\ sl[<<"p1", "room1">>].pc = "sleep"
  /\ sl[<<"p1", "room1">>].rn = 1
  /\ \E r \in s_rounds :
       /\ r.room = "room1" /\ r.round_no = 1
       /\ r.phase = "reveal" /\ r.outcome # NULL
  /\ sl[<<"p1", "room2">>].pc \in {"deal", "settle"}

(* the room has no round today or its latest round of today is settled,   *)
(* and the next number is within the bound of the model                    *)
ReadyToOpen(room) ==
  /\ \/ RoundsOf(today_key, room) = {}
     \/ current_round_info(room).phase = "settled"
  /\ svc_next_round_no(room) <= MaxRoundNo

(* C20: rounds forever: with the store available and the loop scheduled    *)
(* fairly, whenever the room has no round today or its latest round is     *)
(* settled, the room's loop eventually opens a further round (as long as   *)
(* round numbers stay within the bound of the model).                      *)
C20_RoundsForever ==
  \A k \in 0..((MaxDay + 1) * MaxRoundNo) :
     (Cardinality(s_rounds) = k /\ ReadyToOpen("room1"))
       ~> (Cardinality(s_rounds) > k)

(* C20 witness: round 1 of the day is settled and round 2 has been         *)
(* opened after it.                                                        *)
C20_Witness ==
  /\ InPhase(s_day, "room1", 1, "settled")
  /\ InPhase(s_day, "room1", 2, "betting")
  /\ sl[<<"p1", "room1">>].pc = "sleep"

(* the rounds of (d, room) that are not settled *)
Live(d, room) == {r \in RoundsOf(d, room) : r.phase # "settled"}

(* C22: no duplicate live round: in every reachable state at most one      *)
(* unsettled round exists per (room, day-key), whatever the loops and      *)
(* their restarts do (stated for processes that agree on the lock key).    *)
C22_NoDuplicateLive ==
  (\A l1, l2 \in SvcLoops : s_key[l1] = s_key[l2])
    => \A d \in 0..MaxDay, room \in ROOMS : Cardinality(Live(d, room)) <= 1

(* the bet rows accepted against round rn of the room (within the one      *)
(* day-key of SpecIntake): what place_bet stored of the round it read      *)
AcceptedFor(room, rn) ==
  {i \in Reqs : /\ p_bets[i] # NoBet
                /\ p_bets[i].room = room
                /\ p_bets[i].round_no = rn}

C25_StateReflectsStore ==
  \A l \in RoomLoops :
     sl[l].pc \in {"sleep", "deal", "settle"}
       => /\ get_state_snapshot(l).round_no
               = current_round_info(RoomOf(l)).round_no
          /\ get_state_snapshot(l).phase
               = current_round_info(RoomOf(l)).phase

(* the settled rounds of a room, and "played later": by day, then number *)
SettledRows(room) == {r \in s_rounds : r.room = room /\ r.phase = "settled"}

PlayedLater(r, t) ==
  r.day_key > t.day_key \/ (r.day_key = t.day_key /\ r.round_no > t.round_no)

(* the min(limit, number of settled rounds) most recently settled rounds *)
LastSettled(room, limit) ==
  CHOOSE S \in SUBSET SettledRows(room) :
     /\ Cardinality(S) = Min(limit, Cardinality(SettledRows(room)))
     /\ \A r \in S, t \in SettledRows(room) \ S : PlayedLater(r, t)

(* C26: history query: history(room, limit) is exactly the min(limit,      *)
(* number of settled rounds) most recently settled rounds of the room, by  *)
(* time of play also across a day-key rollover, and holds no round that    *)
(* is not settled yet.                                                     *)
C26_History ==
  \A limit \in 1..MaxLimit :
     history("room1", limit) = {LastSettled("room1", limit)}

(* the round rows of the rooms other than room *)
OtherRounds(room) == {r \in s_rounds : r.room # room}

(* a step of loop l leaves the rows and the loops of the other rooms alone *)
RoomFrame(l) ==
  sl'[l] # sl[l]
    => /\ OtherRounds(RoomOf(l))' = OtherRounds(RoomOf(l))
       /\ \A l2 \in RoomLoops \ {l} : sl'[l2] = sl[l2]

(* a loop at the top of its cycle does not find its lock key held by the   *)
(* loop of another room                                                    *)
NoForeignLock(l) ==
  (sl[l].pc = "top" /\ s_key[l] \in DOMAIN s_adv)
    => RoomOf(s_adv[s_key[l]]) = RoomOf(l)

StartsBetting(l) == sl[l].pc \in {"info", "reinfo"} /\ sl'[l].pc = "sleep"

(* C28: resume in current phase: whenever the loop (re)starts on a round   *)
(* and begins a betting countdown for it, that round is stored as betting: *)
(* a round stored as reveal is not presented as betting again and gets no  *)
(* new betting window.                                                     *)
C28_ResumeInPhase ==
  [][\A l \in RoomLoops :
       StartsBetting(l)
         => current_round_info(RoomOf(l)).phase = "betting"]_vars

(* the place of a stored phase in betting -> reveal -> settled *)
PhaseRank(ph) == IF ph = "betting" THEN 0 ELSE IF ph = "reveal" THEN 1 ELSE 2

(* no row of the rounds table moves to an earlier phase in this step *)
PhaseForward ==
  \A r1 \in s_rounds, r2 \in s_rounds' :
     (r1.day_key = r2.day_key /\ r1.room = r2.room /\ r1.round_no = r2.round_no)
       => PhaseRank(r2.phase) >= PhaseRank(r1.phase)

(* the UPDATE ... SET phase='reveal' of loop l (lines 118-125) runs on a   *)
(* round that is stored as betting                                         *)
LocksOnce(l) ==
  (sl[l].pc = "sleep" /\ sl'[l].pc = "deal")
    => ~\E r \in s_rounds : /\ r.room = RoomOf(l) /\ r.round_no = sl[l].rn
                            /\ r.day_key = today_key
                            /\ r.phase # "betting"

(* C30: phase order: the stored phase of a round only moves forward along  *)
(* betting -> reveal -> settled, and the betting -> reveal transition is   *)
(* applied to a round at most once (never to a round already stored as    *)
(* reveal or settled).                                                     *)
C30_PhaseOrder ==
  [][PhaseForward /\ \A l \in RoomLoops : LocksOnce(l)]_vars

(* C31: lock and deal are persisted together: in every state a round     *)
(* stored as reveal has its outcome stored, and a round stored as betting  *)
(* has none; no state shows betting closed without a result.               *)
C31_LockWithDeal ==
  \A r \in s_rounds :
     /\ r.phase = "reveal" => r.outcome # NULL
     /\ r.phase = "betting" => r.outcome = NULL

(* the stored row of the round loop l is running *)
RowOf(l) ==
  {r \in s_rounds : r.room = RoomOf(l) /\ r.round_no = sl[l].rn
                      /\ r.day_key = today_key}

(* C32: fixed deadline: the deadline the scheduler holds for a round is    *)
(* the round's open time plus its room's betting window, and it stays so   *)
(* across later iterations and restarts (never extended or recomputed).    *)
C32_FixedDeadline ==
  \A l \in OneLoop :
     sl[l].pc \in {"sleep", "deal", "settle"}
       => \A r \in RowOf(l) :
             room_state(l).deadline = r.opened_at + BETTING_SECONDS[r.room]

(* C36: outcome is final: once an outcome is stored on a round, no later   *)
(* step of a loop (a retry after an exception, a restart that resumes the  *)
(* round) changes the stored outcome of that round.                        *)
C36_OutcomeFinal ==
  [][\A r1 \in s_rounds, r2 \in s_rounds' :
       (/\ r1.day_key = r2.day_key /\ r1.room = r2.room
        /\ r1.round_no = r2.round_no /\ r1.outcome # NULL)
         => r2.outcome = r1.outcome]_vars

(* C2: round numbering: the round numbers stored for a room and a day_key  *)
(* are exactly 1..k, without gap or repeat.                                *)
C2_RoundNumbering ==
  \A d \in Days, room \in ROOMS :
     Nos(d, room) = 1..Cardinality(RoundsOf(d, room))

(* C3: day rollover: the first round stored for a room under a day_key     *)
(* has round number 1.                                                     *)
C3_DayRollover ==
  [][\A d \in Days, room \in ROOMS :
       (Nos(d, room) = {} /\ Nos(d, room)' # {}) => Nos(d, room)' = {1}]_vars

(***************************************************************************)
(* Claims checked under SpecApi                                            *)
(***************************************************************************)
ApiBetIds == {i \in Reqs : p_bets[i] # NoBet}

RECURSIVE ApiStaked(_, _)
ApiStaked(S, u) ==
  IF S = {} THEN 0
  ELSE LET i == CHOOSE x \in S : TRUE
       IN (IF p_bets[i].user_id = u THEN p_bets[i].amount ELSE 0)
            + ApiStaked(S \ {i}, u)

(* C6: sufficient funds: a bet row is inserted only for a user whose       *)
(* balance at that moment covers the amount, and no balance is negative.   *)
C6_SufficientFunds ==
  [][\A q \in Reqs :
       (p_bets[q] = NoBet /\ p_bets'[q] # NoBet)
         => (balance[p_bets'[q].user_id] >= p_bets'[q].amount
             /\ \A u \in Users : balance'[u] >= 0)]_vars

(* C7: no double spend: the accepted bets of a user who had funds never    *)
(* add up to more than the balance the user had before the requests.       *)
C7_NoDoubleSpend ==
  \A u \in Users :
     ApiInitBalance[u] > 0 => ApiStaked(ApiBetIds, u) <= ApiInitBalance[u]

(* C8: debit and bet row go together: at every moment a user's balance is  *)
(* the initial balance less the amounts of the user's bet rows.            *)
C8_DebitWithBet ==
  \A u \in Users : balance[u] = ApiInitBalance[u] - ApiStaked(ApiBetIds, u)

(* the answer to a request with a valid side that names an unconfigured    *)
(* room is the room's rejection, and for a configured room a non-positive  *)
(* amount is answered with the amount's rejection                          *)
RoomBeforeAmount(q) ==
  \A u \in ReqUsers[q], room \in ReqRooms[q], amount \in ReqAmounts[q],
     side \in ReqSides[q] \cap MainSides :
    api_place_bet_body(q, u, room, side, amount)
      => /\ room \notin ROOMS => rq'[q].res = "invalid room"
         /\ (room \in ROOMS /\ amount < 1) => rq'[q].res = "unprocessable"

(* the answer to a request past the room and amount checks: no round, then *)
(* the deadline, then the funds                                            *)
RoundBeforeFunds(q) ==
  (rq[q].pc = "read" /\ rq'[q].pc # "read")
    => LET r == latest_round(rq[q].room) IN
         IF r = 0 THEN rq'[q].res = "round not ready"
         ELSE IF rq[q].now >= p_rounds[r].close_at
           THEN rq'[q].res = "betting closed"
         ELSE IF balance[rq[q].user] < rq[q].amount
           THEN rq'[q].pc = "done" /\ rq'[q].res \notin {"ok", "betting closed",
                                                         "round not ready"}
         ELSE rq'[q].pc = "insert"

(* C33: order of rejection reasons: a request that violates several        *)
(* preconditions is answered with the reason of the first violated one in  *)
(* the order room, amount, round, deadline, funds, each with its own       *)
(* reason.                                                                 *)
C33_RejectionOrder ==
  [][\A q \in Reqs : RoomBeforeAmount(q) /\ RoundBeforeFunds(q)]_vars

(* C4, baccarat/api.py: a request passes the close_at gate only strictly   *)
(* before the stored close_at of the room's latest round.                  *)
ApiDeadlineGate ==
  [][\A q \in Reqs :
       (rq[q].pc = "read" /\ rq'[q].pc = "insert")
         => rq[q].now < p_rounds[latest_round(rq[q].room)].close_at]_vars

(***************************************************************************)
(* Claims checked under SpecApp                                            *)
(***************************************************************************)

(* a round no dealer pass is still working on *)
PassOver(r) ==
  \A d \in Dealers :
     ~(dl[d].rid = r /\ dl[d].pc \in {"close", "deal", "bets", "pay"})

(* C1: at-most-once settlement: no bet row is paid out more than once,     *)
(* whatever the dealer instances, their failures and restarts do.          *)
C1_AtMostOnce == \A i \in Reqs : a_credited[i] <= 1

(* C18: settlement never skipped after failure: once a round is closed     *)
(* and its outcome stored, a winning bet of that round is paid by the      *)
(* time no dealer pass is working on the round any more, also when the     *)
(* pass that dealt it failed or its process restarted.                     *)
C18_NeverSkipped ==
  \A i \in BetIds :
     LET b == a_bets[i]
         o == a_rounds[b.round_no].outcome
     IN (/\ a_rounds[b.round_no].status = "closed"
         /\ o # NULL
         /\ credit(b.side, o, b.amount) > 0
         /\ PassOver(b.round_no))
        => a_credited[i] >= 1

(* C21: rejected bets change nothing: a step of place_bet that is not the  *)
(* commit of an accepted bet (a refusal for side, amount, no open round,   *)
(* closed round, deadline or funds, and every read before it) leaves the   *)
(* balances, the bet rows and the round rows as they were.                 *)
C21_RejectedFrame ==
  [][\A q \in Reqs :
       (rq'[q] # rq[q] /\ rq'[q].res # "ok")
         => (balance' = balance /\ a_bets' = a_bets /\ a_rounds' = a_rounds)]_vars

(* C21 witness: u1 has staked 50 of 90 and a second request of 50 by u1    *)
(* was refused for funds: the balance is 40 and the request has no row.    *)
C21_Witness ==
  \E q, q0 \in Reqs :
     /\ rq[q].res = "insufficient"
     /\ a_bets[q] = NoBet
     /\ a_bets[q0] # NoBet /\ a_bets[q0].user_id = "u1"
     /\ a_credited[q0] = 0
     /\ balance["u1"] = InitBalance["u1"] - a_bets[q0].amount

(* C23: atomic settlement: in no reachable state is a round closed with    *)
(* its outcome stored while a winning or pushed bet of it is unpaid, nor   *)
(* is a bet paid while its round has no outcome stored.                    *)
C23_AtomicSettlement ==
  \A i \in BetIds :
     LET b == a_bets[i]
         r == a_rounds[b.round_no]
     IN /\ (r.status = "closed" /\ r.outcome # NULL
              /\ credit(b.side, r.outcome, b.amount) > 0)
           => a_credited[i] >= 1
        /\ a_credited[i] >= 1 => r.outcome # NULL

(* the settlement of round r is past its SELECT of the bets (lines         *)
(* 620-626): a pass is paying from the rows it read, or the round has its  *)
(* outcome and no pass is working on it any more                           *)
BetsRead(r) ==
  \/ \E d \in Dealers : dl[d].rid = r /\ dl[d].pc = "pay"
  \/ a_rounds[r].outcome # NULL /\ PassOver(r)

(* the round a committing request attaches its bet to is open, before its  *)
(* deadline and not yet read for settlement at the moment of the commit    *)
CommittedInBetting(q) ==
  LET r == a_bets'[q].round_no IN
    /\ a_rounds[r].status = "open"
    /\ ~DeadlinePassed(clock, a_rounds[r].betting_deadline)
    /\ ~BetsRead(r)

(* C29: bets only during betting, under interleaving: whatever the         *)
(* interleaving of place_bet with the dealer's close and settle steps, a   *)
(* bet row is committed only while its round is in betting phase, before   *)
(* its deadline, and before the dealer has read the round's bets.          *)
C29_OnlyDuringBetting ==
  [][\A q \in Reqs :
       (a_bets[q] = NoBet /\ a_bets'[q] # NoBet) => CommittedInBetting(q)]_vars

(* user u holds a bet of round r that wins or is pushed by the outcome     *)
(* stored on the round                                                     *)
HoldsWinning(u, r) ==
  \E i \in BetIds :
     /\ a_bets[i].user_id = u /\ a_bets[i].round_no = r
     /\ C9_Table(a_bets[i].side, a_rounds[r].outcome, a_bets[i].amount) > 0

(* a step of the settlement of dealer d that writes a balance *)
PayStep(d) == dl[d].pc = "pay" /\ dl'[d] # dl[d]

(* C38: settlement frame: a settlement step changes only the balance of a  *)
(* user who holds a winning or pushed bet in the round being settled, and  *)
(* it never decreases a balance; users with no bet or only losing bets in  *)
(* the round keep their balance.                                           *)
C38_SettlementFrame ==
  [][\A d \in Dealers :
       PayStep(d)
         => \A u \in Users :
               /\ balance'[u] >= balance[u]
               /\ balance'[u] # balance[u] => HoldsWinning(u, dl[d].rid)]_vars

(* C4: deadline gate: a request passes the checks of place_bet only at a   *)
(* time strictly before the stored deadline of the round it bets on; a     *)
(* request at the deadline instant or later is rejected, also while the    *)
(* round is still stored as open.                                          *)
C4_DeadlineGate ==
  [][\A q \in Reqs :
       (rq[q].pc = "read" /\ rq'[q].pc = "debit")
         => rq[q].now < a_rounds[rq'[q].round_no].betting_deadline]_vars

(* C4 witness: a request made at the deadline instant itself was rejected  *)
(* for time while the round was still stored as open.                      *)
C4_Witness ==
  \E q \in Reqs :
     /\ rq[q].res = "time over"
     /\ Len(a_rounds) = 1
     /\ a_rounds[1].status = "open"
     /\ clock = a_rounds[1].betting_deadline

(* C5: lock gate: once a round is stored as closed, no bet row is          *)
(* attached to it any more.                                                *)
C5_LockGate ==
  [][\A q \in Reqs :
       (a_bets[q] = NoBet /\ a_bets'[q] # NoBet)
         => a_rounds[a_bets'[q].round_no].status = "open"]_vars

(* C10: end to end: a user whose only activity is one bet that a           *)
(* settlement pass has evaluated ends with B - a + credit(s, o, a), o the  *)
(* outcome stored on the round.                                            *)
C10_EndToEnd ==
  \A i \in BetIds :
     LET b == a_bets[i]
         o == a_rounds[b.round_no].outcome
     IN (/\ \A j \in BetIds : a_bets[j].user_id = b.user_id => j = i
         /\ \A q \in Reqs : rq[q].pc \in {"debit", "insert"} => rq[q].user # b.user_id
         /\ o # NULL
         /\ PassOver(b.round_no)
         /\ (a_credited[i] >= 1 \/ credit(b.side, o, b.amount) = 0))
        => balance[b.user_id]
             = InitBalance[b.user_id] - b.amount + credit(b.side, o, b.amount)

====
